---- MODULE Spec2Model ----
(***************************************************************************)
(* Pluggable persistence backend for features: the relational (SQLite),   *)
(* document-store (Convex) and markdown implementations of                *)
(* BackendInterface, driven by the same sequence of interface calls.      *)
(*                                                                         *)
(* A caller issues one interface operation at a time; the model executes   *)
(* the call against each of the three backends and records what each of    *)
(* them returned in `ret`.                                                 *)
(***************************************************************************)
EXTENDS Integers, Sequences, FiniteSets, TLC

\* ------------------------------------------------------------------------
\* Bounds of the model
\* ------------------------------------------------------------------------

\* number of features ever created in the project (ids 1..MaxFeatures)
MaxFeatures == 3

\* cap on priority values (skip_feature / explicit priorities stop here)
MaxPriority == 4

\* cap on the length of a stored dependency list where the backend has none
MaxDepsLen == 2

\* ------------------------------------------------------------------------
\* Input domains
\* ------------------------------------------------------------------------

\* categories a caller uses; "General" is the serializer's default category
Categories == {"General", "API"}

\* sorted(by_category.keys()): the alphabetical order of the category names
Alphabetical == <<"API", "General">>

\* an optional value: {} is "not supplied" (None / unset), {v} is v
Opt(S) == {{}} \cup {{x} : x \in S}

Val(o) == CHOOSE x \in o : TRUE

\* ------------------------------------------------------------------------
\* Sequence helpers (python list operations)
\* ------------------------------------------------------------------------

Range(s) == {s[i] : i \in DOMAIN s}

\* x in list
Contains(s, x) == \E i \in DOMAIN s : s[i] = x

\* [x for x in s if x != v]
RECURSIVE Without(_, _)
Without(s, v) ==
    IF s = <<>> THEN <<>>
    ELSE IF Head(s) = v THEN Without(Tail(s), v)
         ELSE <<Head(s)>> \o Without(Tail(s), v)

\* list.remove(v): removes the first occurrence
RECURSIVE RemoveFirst(_, _)
RemoveFirst(s, v) ==
    IF s = <<>> THEN <<>>
    ELSE IF Head(s) = v THEN Tail(s)
         ELSE <<Head(s)>> \o RemoveFirst(Tail(s), v)

\* insert x into an ascending list after the elements <= x
RECURSIVE InsertInt(_, _)
InsertInt(s, x) ==
    IF s = <<>> THEN <<x>>
    ELSE IF x < Head(s) THEN <<x>> \o s
         ELSE <<Head(s)>> \o InsertInt(Tail(s), x)

\* sorted(list of int)
RECURSIVE SortedInts(_)
SortedInts(s) ==
    IF s = <<>> THEN <<>>
    ELSE InsertInt(SortedInts(SubSeq(s, 1, Len(s) - 1)), s[Len(s)])

\* len(set(list))
HasDuplicates(s) == Cardinality(Range(s)) # Len(s)

\* insert a feature into a priority-ascending list after the equal keys
RECURSIVE InsertByPriority(_, _)
InsertByPriority(s, f) ==
    IF s = <<>> THEN <<f>>
    ELSE IF f.priority < Head(s).priority THEN <<f>> \o s
         ELSE <<Head(s)>> \o InsertByPriority(Tail(s), f)

\* sorted(features, key=priority): stable, ascending
RECURSIVE SortByPriority(_)
SortByPriority(s) ==
    IF s = <<>> THEN <<>>
    ELSE InsertByPriority(SortByPriority(SubSeq(s, 1, Len(s) - 1)), s[Len(s)])

\* max(values, default=d)
MaxOf(S, d) == IF S = {} THEN d ELSE CHOOSE m \in S : \A x \in S : x <= m

\* index of the feature with this id in a list, 0 when absent
IndexOf(s, id) ==
    IF \E i \in DOMAIN s : s[i].id = id
    THEN CHOOSE i \in DOMAIN s : s[i].id = id /\ \A j \in 1..(i - 1) : s[j].id # id
    ELSE 0

Ids(s) == {s[i].id : i \in DOMAIN s}

\* ------------------------------------------------------------------------
\* Results returned to the caller
\* ------------------------------------------------------------------------

\* a returned value: feats = FeatureResponse objects, ids = a list of ids,
\* flag = a returned boolean / "success" entry, keys = keys of a returned dict
Ok(feats, ids, flag, keys) ==
    [st |-> "ok", err |-> "", feats |-> feats, ids |-> ids, flag |-> flag, keys |-> keys]

\* raise ValueError(msg)
Raise(msg) ==
    [st |-> "error", err |-> msg, feats |-> <<>>, ids |-> <<>>, flag |-> FALSE, keys |-> {}]


\* ------------------------------------------------------------------------
\* api.dependency_resolver (imported by the relational backend)
\* ------------------------------------------------------------------------

\* per-feature cap on the number of dependencies
MAX_DEPENDENCIES_PER_FEATURE == 2

\* dependencies of the feature with this id in a list of feature dicts
DepsOf(features, id) ==
    IF IndexOf(features, id) = 0 THEN <<>> ELSE features[IndexOf(features, id)].dependencies

\* depth-first traversal over the dependency edges from current, looking
\* for source; visited holds the nodes already on the path
RECURSIVE CanReach(_, _, _, _)
CanReach(features, current, source, visited) ==
    IF current = source THEN TRUE
    ELSE IF current \in visited THEN FALSE
    ELSE \E d \in Range(DepsOf(features, current)) :
            CanReach(features, d, source, visited \cup {current})

\* TRUE iff adding the edge source_id -> target_id closes a cycle: source_id
\* is reachable from target_id over the existing edges
would_create_circular_dependency(features, source_id, target_id) ==
    CanReach(features, target_id, source_id, {})

\* ------------------------------------------------------------------------
\* Relational backend (SQLiteBackend)
\* ------------------------------------------------------------------------

\* Feature table; the integer primary key is handed out by a counter that
\* never goes back
SQLiteInsert(store, row) ==
    [db |-> Append(store.db, [row EXCEPT !.id = store.seq + 1]), seq |-> store.seq + 1]

\* session.query(Feature).order_by(Feature.priority.desc()).first()
SQLiteMaxPriority(db) == MaxOf({db[i].priority : i \in DOMAIN db}, 0)

\* session.query(Feature).order_by(Feature.priority).all()
SQLiteOrderByPriority(db) == SortByPriority(db)

\* replace the row with this id
SQLiteReplace(db, row) == [i \in DOMAIN db |-> IF db[i].id = row.id THEN row ELSE db[i]]

\* {f.id for f in all_features if f.passes}
PassingIds(features) == {features[i].id : i \in {j \in DOMAIN features : features[j].passes}}

\* _feature_to_response: passing_ids = {} stands for None
SQLiteBackend_feature_to_response(f, passing_ids) ==
    LET deps == f.dependencies
        blocking == IF passing_ids = {} THEN <<>>
                    ELSE SelectSeq(deps, LAMBDA d : d \notin Val(passing_ids))
        blocked == IF passing_ids = {} THEN FALSE ELSE Len(blocking) > 0
    IN  [id |-> f.id, priority |-> f.priority, category |-> f.category,
         name |-> f.name, description |-> f.description, steps |-> f.steps,
         dependencies |-> deps, passes |-> f.passes, in_progress |-> f.in_progress,
         blocked |-> blocked, blocking_dependencies |-> blocking]

SQLiteBucketInProgressFirst(f) ==
    IF f.in_progress THEN "in_progress" ELSE IF f.passes THEN "done" ELSE "pending"

\* the bucket a row goes to in the loop of list_features
SQLiteBucket(f) ==
    IF f.passes THEN "done" ELSE IF f.in_progress THEN "in_progress" ELSE "pending"

SQLiteBackend_list_features(store) ==
    LET all_features == SQLiteOrderByPriority(store.db)
        passing_ids == PassingIds(all_features)
        bucket(b) == LET rows == SelectSeq(all_features, LAMBDA f : SQLiteBucket(f) = b)
                     IN  [i \in DOMAIN rows |->
                            SQLiteBackend_feature_to_response(rows[i], {passing_ids})]
    IN  [pending |-> bucket("pending"),
         in_progress |-> bucket("in_progress"),
         done |-> bucket("done")]

SQLiteBackend_create_feature(store, feature) ==
    LET priority == IF feature.priority = {}
                    THEN (IF store.db = <<>> THEN 1 ELSE SQLiteMaxPriority(store.db) + 1)
                    ELSE Val(feature.priority)
        db_feature == [id |-> 0, priority |-> priority, category |-> feature.category,
                       name |-> feature.name, description |-> feature.description,
                       steps |-> feature.steps,
                       dependencies |-> IF feature.dependencies = {} THEN <<>>
                                        ELSE Val(feature.dependencies),
                       passes |-> FALSE, in_progress |-> FALSE]
        after == SQLiteInsert(store, db_feature)
    IN  [store |-> after,
         res |-> Ok(<<SQLiteBackend_feature_to_response(after.db[Len(after.db)], {})>>,
                    <<>>, TRUE, {})]

\* the loop of create_features_bulk: one row per spec, priorities counting up
RECURSIVE SQLiteBulkInsert(_, _, _)
SQLiteBulkInsert(store, specs, current_priority) ==
    IF specs = <<>> THEN store
    ELSE LET fdata == Head(specs)
             db_f == [id |-> 0, priority |-> current_priority, category |-> fdata.category,
                      name |-> fdata.name, description |-> fdata.description,
                      steps |-> fdata.steps,
                      dependencies |-> IF fdata.dependencies = {} THEN <<>>
                                       ELSE Val(fdata.dependencies),
                      passes |-> FALSE, in_progress |-> FALSE]
         IN  SQLiteBulkInsert(SQLiteInsert(store, db_f), Tail(specs), current_priority + 1)

SQLiteBackend_create_features_bulk(store, bulk) ==
    IF bulk.features = <<>> THEN [store |-> store, res |-> Ok(<<>>, <<>>, TRUE, {})]
    ELSE LET current_priority ==
                 IF bulk.starting_priority # {} THEN Val(bulk.starting_priority)
                 ELSE IF store.db = <<>> THEN 1 ELSE SQLiteMaxPriority(store.db) + 1
             after == SQLiteBulkInsert(store, bulk.features, current_priority)
             created == SelectSeq(SQLiteOrderByPriority(after.db), LAMBDA f : f.id > store.seq)
         IN  [store |-> after,
              res |-> Ok([i \in DOMAIN created |->
                            SQLiteBackend_feature_to_response(created[i], {})],
                         <<>>, TRUE, {})]

\* returns no feature (None) when the id is absent
SQLiteBackend_get_feature(store, feature_id) ==
    LET i == IndexOf(store.db, feature_id)
    IN  IF i = 0 THEN Ok(<<>>, <<>>, FALSE, {})
        ELSE Ok(<<SQLiteBackend_feature_to_response(store.db[i], {})>>, <<>>, TRUE, {})

SQLiteBackend_update_feature(store, feature_id, update) ==
    LET i == IndexOf(store.db, feature_id)
        f == store.db[i]
        g == [f EXCEPT
                !.category = IF update.category # {} THEN Val(update.category) ELSE @,
                !.name = IF update.name # {} THEN Val(update.name) ELSE @,
                !.description = IF update.description # {} THEN Val(update.description) ELSE @,
                !.steps = IF update.steps # {} THEN Val(update.steps) ELSE @,
                !.priority = IF update.priority # {} THEN Val(update.priority) ELSE @,
                !.dependencies = IF update.dependencies # {} THEN Val(update.dependencies) ELSE @]
        db == SQLiteReplace(store.db, g)
    IN  IF i = 0 THEN [store |-> store, res |-> Raise("Feature {id} not found")]
        ELSE IF f.passes THEN [store |-> store, res |-> Raise("Cannot edit completed feature")]
        ELSE [store |-> [store EXCEPT !.db = db],
              res |-> Ok(<<SQLiteBackend_feature_to_response(g, {PassingIds(db)})>>,
                         <<>>, TRUE, {})]

SQLiteBackend_delete_feature(store, feature_id) ==
    LET i == IndexOf(store.db, feature_id)
        others == [j \in DOMAIN store.db |->
                     IF Contains(store.db[j].dependencies, feature_id)
                     THEN [store.db[j] EXCEPT !.dependencies = Without(@, feature_id)]
                     ELSE store.db[j]]
        hit == SelectSeq(store.db, LAMBDA o : Contains(o.dependencies, feature_id))
        affected == [j \in DOMAIN hit |-> hit[j].id]
    IN  IF i = 0 THEN [store |-> store, res |-> Raise("Feature {id} not found")]
        ELSE [store |-> [store EXCEPT !.db = SelectSeq(others, LAMBDA o : o.id # feature_id)],
              res |-> Ok(<<>>, affected, TRUE, {"success", "message", "affected_features"})]

SQLiteBackend_skip_feature(store, feature_id) ==
    LET i == IndexOf(store.db, feature_id)
    IN  IF i = 0 THEN [store |-> store, res |-> Raise("Feature {id} not found")]
        ELSE [store |-> [store EXCEPT !.db[i].priority = SQLiteMaxPriority(store.db) + 1],
              res |-> Ok(<<>>, <<>>, TRUE, {})]

SQLiteNoCycleCheck_add_dependency(store, feature_id, dep_id) ==
    LET i == IndexOf(store.db, feature_id)
        current == store.db[i].dependencies
    IN  IF i = 0 THEN [store |-> store, res |-> Raise("Feature {id} not found")]
        ELSE IF IndexOf(store.db, dep_id) = 0
             THEN [store |-> store, res |-> Raise("Dependency {id} not found")]
        ELSE IF feature_id = dep_id
             THEN [store |-> store, res |-> Raise("Cannot depend on self")]
        ELSE IF Len(current) >= MAX_DEPENDENCIES_PER_FEATURE
             THEN [store |-> store, res |-> Raise("Max dependencies ({n}) exceeded")]
        ELSE IF Contains(current, dep_id)
             THEN [store |-> store, res |-> Raise("Dependency already exists")]
        ELSE [store |-> [store EXCEPT !.db[i].dependencies = SortedInts(Append(current, dep_id))],
              res |-> Ok(<<>>, SortedInts(Append(current, dep_id)), TRUE, {})]

SQLiteBackend_add_dependency(store, feature_id, dep_id) ==
    LET i == IndexOf(store.db, feature_id)
        current == store.db[i].dependencies
    IN  IF i = 0 THEN [store |-> store, res |-> Raise("Feature {id} not found")]
        ELSE IF IndexOf(store.db, dep_id) = 0
             THEN [store |-> store, res |-> Raise("Dependency {id} not found")]
        ELSE IF feature_id = dep_id
             THEN [store |-> store, res |-> Raise("Cannot depend on self")]
        ELSE IF Len(current) >= MAX_DEPENDENCIES_PER_FEATURE
             THEN [store |-> store, res |-> Raise("Max dependencies ({n}) exceeded")]
        ELSE IF Contains(current, dep_id)
             THEN [store |-> store, res |-> Raise("Dependency already exists")]
        ELSE IF would_create_circular_dependency(store.db, feature_id, dep_id)
             THEN [store |-> store, res |-> Raise("Would create circular dependency")]
        ELSE [store |-> [store EXCEPT !.db[i].dependencies = SortedInts(Append(current, dep_id))],
              res |-> Ok(<<>>, SortedInts(Append(current, dep_id)), TRUE, {})]

SQLiteBackend_remove_dependency(store, feature_id, dep_id) ==
    LET i == IndexOf(store.db, feature_id)
        current == store.db[i].dependencies
    IN  IF i = 0 THEN [store |-> store, res |-> Raise("Feature {id} not found")]
        ELSE IF ~Contains(current, dep_id)
             THEN [store |-> store, res |-> Raise("Dependency does not exist")]
        ELSE [store |-> [store EXCEPT !.db[i].dependencies = RemoveFirst(current, dep_id)],
              res |-> Ok(<<>>, RemoveFirst(current, dep_id), TRUE, {})]

SQLiteBackend_set_dependencies(store, feature_id, dep_ids) ==
    LET i == IndexOf(store.db, feature_id)
        test_features == [j \in DOMAIN store.db |->
                            IF store.db[j].id = feature_id
                            THEN [store.db[j] EXCEPT !.dependencies = dep_ids]
                            ELSE store.db[j]]
    IN  IF Contains(dep_ids, feature_id)
             THEN [store |-> store, res |-> Raise("Cannot depend on self")]
        ELSE IF HasDuplicates(dep_ids)
             THEN [store |-> store, res |-> Raise("Duplicate dependencies")]
        ELSE IF i = 0 THEN [store |-> store, res |-> Raise("Feature {id} not found")]
        ELSE IF \E k \in DOMAIN dep_ids : dep_ids[k] \notin Ids(store.db)
             THEN [store |-> store, res |-> Raise("Dependencies not found: {missing}")]
        ELSE IF \E k \in DOMAIN dep_ids :
                    would_create_circular_dependency(test_features, feature_id, dep_ids[k])
             THEN [store |-> store, res |-> Raise("Circular dependency detected with {dep_id}")]
        ELSE [store |-> [store EXCEPT !.db[i].dependencies = SortedInts(dep_ids)],
              res |-> Ok(<<>>, SortedInts(dep_ids), TRUE, {})]


\* one node per row, its status by done > blocked > in_progress > pending;
\* one edge dependency -> feature per stored dependency
SQLiteBackend_get_dependency_graph(store) ==
    LET passing_ids == PassingIds(store.db)
        blocking(f) == SelectSeq(f.dependencies, LAMBDA d : d \notin passing_ids)
        status(f) == IF f.passes THEN "done"
                     ELSE IF blocking(f) # <<>> THEN "blocked"
                     ELSE IF f.in_progress THEN "in_progress"
                     ELSE "pending"
    IN  [nodes |-> [i \in DOMAIN store.db |->
                      [id |-> store.db[i].id, name |-> store.db[i].name,
                       category |-> store.db[i].category, status |-> status(store.db[i]),
                       priority |-> store.db[i].priority,
                       dependencies |-> store.db[i].dependencies]],
         edges |-> UNION {{[source |-> d, target |-> store.db[i].id] : d \in Range(store.db[i].dependencies)} :
                         i \in DOMAIN store.db}]


\* ------------------------------------------------------------------------
\* Markdown backend (MarkdownBackend)
\* ------------------------------------------------------------------------
\* features.md is a list of sections, one per "# category" heading; a
\* section holds the checklist items under the heading, each one
\* "- [mark] name <!-- id: n -->" followed by its "  - step" lines.

\* FeatureResponse(...) as the markdown backend builds it: blocked and
\* blocking_dependencies keep the schema defaults
MarkdownFeature(id, priority, category, name, description, steps, passes, in_progress, deps) ==
    [id |-> id, priority |-> priority, category |-> category, name |-> name,
     description |-> description, steps |-> steps, dependencies |-> deps,
     passes |-> passes, in_progress |-> in_progress,
     blocked |-> FALSE, blocking_dependencies |-> <<>>]

\* the item lines of the file from the top, n features parsed before them
RECURSIVE MarkdownParseSections(_, _)
MarkdownParseSections(sections, n) ==
    IF sections = <<>> THEN <<>>
    ELSE LET sec == Head(sections)
             parsed == [i \in DOMAIN sec.items |->
                          MarkdownFeature(sec.items[i].id, n + i, sec.category,
                                          sec.items[i].name, "", sec.items[i].steps,
                                          sec.items[i].mark = "x", sec.items[i].mark = "/",
                                          <<>>)]
         IN  parsed \o MarkdownParseSections(Tail(sections), n + Len(sec.items))

MarkdownBackend_parse_features_md(content) == MarkdownParseSections(content, 0)

\* sorted(by_category.keys()) with "General" moved to the front
MarkdownCategoryOrder(cats) ==
    LET sorted == SelectSeq(Alphabetical, LAMBDA c : c \in cats)
    IN  IF "General" \in cats
        THEN <<"General">> \o SelectSeq(sorted, LAMBDA c : c # "General")
        ELSE sorted

MarkdownBackend_serialize_features(features) ==
    LET categories == MarkdownCategoryOrder({features[i].category : i \in DOMAIN features})
        section(cat) ==
            LET items == SortByPriority(SelectSeq(features, LAMBDA f : f.category = cat))
            IN  [category |-> cat,
                 items |-> [i \in DOMAIN items |->
                              [mark |-> IF items[i].passes THEN "x"
                                        ELSE IF items[i].in_progress THEN "/" ELSE " ",
                               name |-> items[i].name,
                               id |-> items[i].id,
                               steps |-> items[i].steps]]]
    IN  [c \in DOMAIN categories |-> section(categories[c])]

MarkdownBackend_read_features_list(file) == MarkdownBackend_parse_features_md(file)

MarkdownBackend_save_features_list(features) == MarkdownBackend_serialize_features(features)

MarkdownBackend_list_features(file) ==
    LET features == SortByPriority(MarkdownBackend_read_features_list(file))
    IN  [pending |-> SelectSeq(features, LAMBDA f : ~f.passes /\ ~f.in_progress),
         in_progress |-> SelectSeq(features, LAMBDA f : f.in_progress /\ ~f.passes),
         done |-> SelectSeq(features, LAMBDA f : f.passes)]

MarkdownBackend_create_feature(file, feature) ==
    LET features == MarkdownBackend_read_features_list(file)
        max_id == MaxOf(Ids(features), 0)
        new_id == max_id + 1
        max_pri == MaxOf({features[i].priority : i \in DOMAIN features}, 0)
        new_pri == IF feature.priority # {} THEN Val(feature.priority) ELSE max_pri + 1
        new_feat == MarkdownFeature(new_id, new_pri, feature.category, feature.name,
                                    feature.description, feature.steps, FALSE, FALSE,
                                    IF feature.dependencies = {} THEN <<>>
                                    ELSE Val(feature.dependencies))
    IN  [store |-> MarkdownBackend_save_features_list(Append(features, new_feat)),
         res |-> Ok(<<new_feat>>, <<>>, TRUE, {})]

\* the loop of create_features_bulk
RECURSIVE MarkdownBulkCreated(_, _, _)
MarkdownBulkCreated(specs, max_id, current_pri) ==
    IF specs = <<>> THEN <<>>
    ELSE LET f_in == Head(specs)
         IN  <<MarkdownFeature(max_id + 1, current_pri, f_in.category, f_in.name,
                               f_in.description, f_in.steps, FALSE, FALSE,
                               IF f_in.dependencies = {} THEN <<>>
                               ELSE Val(f_in.dependencies))>>
             \o MarkdownBulkCreated(Tail(specs), max_id + 1, current_pri + 1)

MarkdownBackend_create_features_bulk(file, bulk) ==
    LET features == MarkdownBackend_read_features_list(file)
        max_id == MaxOf(Ids(features), 0)
        current_pri == IF bulk.starting_priority # {} /\ Val(bulk.starting_priority) # 0
                       THEN Val(bulk.starting_priority) ELSE 1
        created == MarkdownBulkCreated(bulk.features, max_id, current_pri)
    IN  [store |-> MarkdownBackend_save_features_list(features \o created),
         res |-> Ok(created, <<>>, TRUE, {})]

MarkdownBackend_get_feature(file, feature_id) ==
    LET features == MarkdownBackend_read_features_list(file)
        i == IndexOf(features, feature_id)
    IN  IF i = 0 THEN Ok(<<>>, <<>>, FALSE, {}) ELSE Ok(<<features[i]>>, <<>>, TRUE, {})

MarkdownBackend_update_feature(file, feature_id, update) ==
    LET features == MarkdownBackend_read_features_list(file)
        target_idx == IndexOf(features, feature_id)
        current == features[target_idx]
        updated == [current EXCEPT
                !.category = IF update.category # {} THEN Val(update.category) ELSE @,
                !.name = IF update.name # {} THEN Val(update.name) ELSE @,
                !.description = IF update.description # {} THEN Val(update.description) ELSE @,
                !.steps = IF update.steps # {} THEN Val(update.steps) ELSE @,
                !.priority = IF update.priority # {} THEN Val(update.priority) ELSE @,
                !.dependencies = IF update.dependencies # {} THEN Val(update.dependencies) ELSE @]
    IN  IF target_idx = 0 THEN [store |-> file, res |-> Raise("Feature {id} not found")]
        ELSE [store |-> MarkdownBackend_save_features_list(
                            [features EXCEPT ![target_idx] = updated]),
              res |-> Ok(<<updated>>, <<>>, TRUE, {})]

MarkdownBackend_delete_feature(file, feature_id) ==
    LET features == MarkdownBackend_read_features_list(file)
        new_list == SelectSeq(features, LAMBDA f : f.id # feature_id)
    IN  IF Len(new_list) = Len(features)
        THEN [store |-> file, res |-> Ok(<<>>, <<>>, FALSE, {"success"})]
        ELSE [store |-> MarkdownBackend_save_features_list(new_list),
              res |-> Ok(<<>>, <<>>, TRUE, {"success", "id"})]

MarkdownBackend_skip_feature(file, feature_id) ==
    LET features == MarkdownBackend_read_features_list(file)
        i == IndexOf(features, feature_id)
        max_pri == MaxOf({features[j].priority : j \in DOMAIN features}, 0)
    IN  IF i = 0 THEN [store |-> file, res |-> Ok(<<>>, <<>>, FALSE, {})]
        ELSE [store |-> MarkdownBackend_save_features_list(
                            [features EXCEPT ![i].priority = max_pri + 1]),
              res |-> Ok(<<>>, <<>>, TRUE, {})]

\* add_dependency with the self check of the relational backend
MarkdownSelfChecked_add_dependency(file, feature_id, dep_id) ==
    LET features == MarkdownBackend_read_features_list(file)
        i == IndexOf(features, feature_id)
        f == features[i]
    IN  IF i = 0 THEN [store |-> file, res |-> Raise("Feature not found")]
        ELSE IF feature_id = dep_id THEN [store |-> file, res |-> Raise("Cannot depend on self")]
        ELSE IF ~Contains(f.dependencies, dep_id)
        THEN [store |-> MarkdownBackend_save_features_list(
                            [features EXCEPT ![i].dependencies = Append(@, dep_id)]),
              res |-> Ok(<<>>, Append(f.dependencies, dep_id), TRUE, {})]
        ELSE [store |-> file, res |-> Ok(<<>>, f.dependencies, TRUE, {})]

MarkdownBackend_add_dependency(file, feature_id, dep_id) ==
    LET features == MarkdownBackend_read_features_list(file)
        i == IndexOf(features, feature_id)
        f == features[i]
    IN  IF i = 0 THEN [store |-> file, res |-> Raise("Feature not found")]
        ELSE IF ~Contains(f.dependencies, dep_id)
        THEN [store |-> MarkdownBackend_save_features_list(
                            [features EXCEPT ![i].dependencies = Append(@, dep_id)]),
              res |-> Ok(<<>>, Append(f.dependencies, dep_id), TRUE, {})]
        ELSE [store |-> file, res |-> Ok(<<>>, f.dependencies, TRUE, {})]

MarkdownBackend_remove_dependency(file, feature_id, dep_id) ==
    LET features == MarkdownBackend_read_features_list(file)
        i == IndexOf(features, feature_id)
        f == features[i]
    IN  IF i = 0 THEN [store |-> file, res |-> Raise("Feature not found")]
        ELSE IF Contains(f.dependencies, dep_id)
        THEN [store |-> MarkdownBackend_save_features_list(
                            [features EXCEPT ![i].dependencies = RemoveFirst(@, dep_id)]),
              res |-> Ok(<<>>, RemoveFirst(f.dependencies, dep_id), TRUE, {})]
        ELSE [store |-> file, res |-> Ok(<<>>, f.dependencies, TRUE, {})]

MarkdownBackend_set_dependencies(file, feature_id, dep_ids) ==
    LET features == MarkdownBackend_read_features_list(file)
        i == IndexOf(features, feature_id)
    IN  IF i = 0 THEN [store |-> file, res |-> Raise("Feature not found")]
        ELSE [store |-> MarkdownBackend_save_features_list(
                            [features EXCEPT ![i].dependencies = dep_ids]),
              res |-> Ok(<<>>, dep_ids, TRUE, {})]


\* one node per parsed feature: done, in_progress or pending
MarkdownBackend_get_dependency_graph(file) ==
    LET features == MarkdownBackend_read_features_list(file)
        status(f) == IF f.passes THEN "done" ELSE IF f.in_progress THEN "in_progress"
                     ELSE "pending"
    IN  [nodes |-> [i \in DOMAIN features |->
                      [id |-> features[i].id, label |-> <<features[i].id, features[i].name>>,
                       status |-> status(features[i])]],
         edges |-> UNION {{[from |-> d, to |-> features[i].id] : d \in Range(features[i].dependencies)} :
                         i \in DOMAIN features}]


\* ------------------------------------------------------------------------
\* Document-store backend (ConvexBackend)
\* ------------------------------------------------------------------------
\* The remote functions (features:create, features:list, ...) run in the
\* document store; the python backend only calls them.  They are modelled
\* by the interface contract: ids from a counter, default priority max+1,
\* list in ascending priority.

ConvexIndexOf(docs, feature_id) ==
    IF \E i \in DOMAIN docs : docs[i].featureId = feature_id
    THEN CHOOSE i \in DOMAIN docs : docs[i].featureId = feature_id
    ELSE 0

ConvexMaxPriority(docs) == MaxOf({docs[i].priority : i \in DOMAIN docs}, 0)

\* query "features:list"
Convex_features_list(store) == SortByPriority(store.docs)

\* mutation "features:create"
Convex_features_create(store, args) ==
    LET doc == [featureId |-> store.seq + 1,
                priority |-> IF args.priority # {} THEN Val(args.priority)
                             ELSE ConvexMaxPriority(store.docs) + 1,
                category |-> args.category, name |-> args.name,
                description |-> args.description, steps |-> args.steps,
                passes |-> args.passes, in_progress |-> args.in_progress,
                dependencies |-> args.dependencies]
    IN  [store |-> [docs |-> Append(store.docs, doc), seq |-> store.seq + 1], doc |-> doc]

\* mutation "features:createBulk"
RECURSIVE Convex_features_createBulk(_, _, _)
Convex_features_createBulk(store, features, priority) ==
    IF features = <<>> THEN [store |-> store, docs |-> <<>>]
    ELSE LET one == Convex_features_create(store,
                        [category |-> Head(features).category, name |-> Head(features).name,
                         description |-> Head(features).description,
                         steps |-> Head(features).steps, priority |-> {priority},
                         passes |-> FALSE, in_progress |-> FALSE,
                         dependencies |-> IF Head(features).dependencies = {} THEN <<>>
                                          ELSE Val(Head(features).dependencies)])
             rest == Convex_features_createBulk(one.store, Tail(features), priority + 1)
         IN  [store |-> rest.store, docs |-> <<one.doc>> \o rest.docs]

\* mutation "features:updateByFeatureId": patches the supplied fields
Convex_features_updateByFeatureId(store, feature_id, fields) ==
    LET i == ConvexIndexOf(store.docs, feature_id)
        doc == store.docs[i]
        patched == [doc EXCEPT
                !.category = IF fields.category # {} THEN Val(fields.category) ELSE @,
                !.name = IF fields.name # {} THEN Val(fields.name) ELSE @,
                !.description = IF fields.description # {} THEN Val(fields.description) ELSE @,
                !.steps = IF fields.steps # {} THEN Val(fields.steps) ELSE @,
                !.priority = IF fields.priority # {} THEN Val(fields.priority) ELSE @,
                !.dependencies = IF fields.dependencies # {} THEN Val(fields.dependencies) ELSE @]
    IN  IF i = 0 THEN [store |-> store, err |-> "Feature not found", doc |-> <<>>]
        ELSE IF doc.passes
             THEN [store |-> store, err |-> "Cannot edit completed feature", doc |-> <<>>]
        ELSE [store |-> [store EXCEPT !.docs[i] = patched], err |-> "", doc |-> <<patched>>]

\* mutation "features:deleteByFeatureId"
Convex_features_deleteByFeatureId(store, feature_id) ==
    LET i == ConvexIndexOf(store.docs, feature_id)
        kept == SelectSeq(store.docs, LAMBDA d : d.featureId # feature_id)
    IN  IF i = 0 THEN [store |-> store, success |-> FALSE]
        ELSE [store |-> [store EXCEPT !.docs =
                            [j \in DOMAIN kept |->
                                [kept[j] EXCEPT !.dependencies = Without(@, feature_id)]]],
              success |-> TRUE]

\* mutation "features:skip"
Convex_features_skip(store, feature_id) ==
    LET i == ConvexIndexOf(store.docs, feature_id)
    IN  IF i = 0 THEN [store |-> store, success |-> FALSE]
        ELSE [store |-> [store EXCEPT !.docs[i].priority = ConvexMaxPriority(store.docs) + 1],
              success |-> TRUE]

\* _feature_from_convex
ConvexBackend_feature_from_convex(doc) ==
    [id |-> doc.featureId, priority |-> doc.priority, category |-> doc.category,
     name |-> doc.name, description |-> doc.description, steps |-> doc.steps,
     dependencies |-> doc.dependencies, passes |-> doc.passes,
     in_progress |-> doc.in_progress, blocked |-> FALSE, blocking_dependencies |-> <<>>]

ConvexBucket(feat) ==
    IF feat.passes THEN "done" ELSE IF feat.in_progress THEN "in_progress" ELSE "pending"

ConvexBackend_list_features(store) ==
    LET docs == Convex_features_list(store)
        feats == [i \in DOMAIN docs |-> ConvexBackend_feature_from_convex(docs[i])]
    IN  [pending |-> SelectSeq(feats, LAMBDA f : ConvexBucket(f) = "pending"),
         in_progress |-> SelectSeq(feats, LAMBDA f : ConvexBucket(f) = "in_progress"),
         done |-> SelectSeq(feats, LAMBDA f : ConvexBucket(f) = "done")]

ConvexBackend_create_feature(store, feature) ==
    LET args == [category |-> feature.category, name |-> feature.name,
                 description |-> feature.description, steps |-> feature.steps,
                 priority |-> feature.priority,
                 dependencies |-> IF feature.dependencies = {} THEN <<>>
                                  ELSE Val(feature.dependencies),
                 passes |-> FALSE, in_progress |-> FALSE]
        made == Convex_features_create(store, args)
    IN  [store |-> made.store,
         res |-> Ok(<<ConvexBackend_feature_from_convex(made.doc)>>, <<>>, TRUE, {})]

ConvexBackend_create_features_bulk(store, bulk) ==
    LET start == IF bulk.starting_priority # {} THEN Val(bulk.starting_priority)
                 ELSE ConvexMaxPriority(store.docs) + 1
        made == Convex_features_createBulk(store, bulk.features, start)
    IN  [store |-> made.store,
         res |-> Ok([i \in DOMAIN made.docs |-> ConvexBackend_feature_from_convex(made.docs[i])],
                    <<>>, TRUE, {})]

ConvexBackend_get_feature(store, feature_id) ==
    LET i == ConvexIndexOf(store.docs, feature_id)
    IN  IF i = 0 THEN Ok(<<>>, <<>>, FALSE, {})
        ELSE Ok(<<ConvexBackend_feature_from_convex(store.docs[i])>>, <<>>, TRUE, {})

ConvexBackend_update_feature(store, feature_id, update) ==
    LET done == Convex_features_updateByFeatureId(store, feature_id, update)
    IN  IF done.err # "" THEN [store |-> store, res |-> Raise(done.err)]
        ELSE [store |-> done.store,
              res |-> Ok(<<ConvexBackend_feature_from_convex(done.doc[1])>>, <<>>, TRUE, {})]

ConvexBackend_delete_feature(store, feature_id) ==
    LET done == Convex_features_deleteByFeatureId(store, feature_id)
    IN  IF ~done.success THEN [store |-> store, res |-> Raise("Feature not found")]
        ELSE [store |-> done.store, res |-> Ok(<<>>, <<>>, TRUE, {"success", "id"})]

ConvexBackend_skip_feature(store, feature_id) ==
    LET done == Convex_features_skip(store, feature_id)
    IN  [store |-> done.store, res |-> Ok(<<>>, <<>>, done.success, {})]

\* FeatureUpdate(dependencies=deps)
DependenciesUpdate(deps) ==
    [category |-> {}, name |-> {}, description |-> {}, steps |-> {}, priority |-> {},
     dependencies |-> {deps}]

ConvexBackend_add_dependency(store, feature_id, dep_id) ==
    LET feat == ConvexBackend_get_feature(store, feature_id)
        current_deps == feat.feats[1].dependencies
        new_deps == Append(current_deps, dep_id)
        upd == ConvexBackend_update_feature(store, feature_id, DependenciesUpdate(new_deps))
    IN  IF feat.feats = <<>> THEN [store |-> store, res |-> Raise("Feature not found")]
        ELSE IF Contains(current_deps, dep_id)
             THEN [store |-> store, res |-> Ok(<<>>, current_deps, TRUE, {})]
        ELSE IF upd.res.st = "error" THEN upd
        ELSE [store |-> upd.store, res |-> Ok(<<>>, new_deps, TRUE, {})]

ConvexBackend_remove_dependency(store, feature_id, dep_id) ==
    LET feat == ConvexBackend_get_feature(store, feature_id)
        current_deps == feat.feats[1].dependencies
        new_deps == Without(current_deps, dep_id)
        upd == ConvexBackend_update_feature(store, feature_id, DependenciesUpdate(new_deps))
    IN  IF feat.feats = <<>> THEN [store |-> store, res |-> Raise("Feature not found")]
        ELSE IF ~Contains(current_deps, dep_id)
             THEN [store |-> store, res |-> Ok(<<>>, current_deps, TRUE, {})]
        ELSE IF upd.res.st = "error" THEN upd
        ELSE [store |-> upd.store, res |-> Ok(<<>>, new_deps, TRUE, {})]

ConvexBackend_set_dependencies(store, feature_id, dep_ids) ==
    LET upd == ConvexBackend_update_feature(store, feature_id, DependenciesUpdate(dep_ids))
    IN  IF upd.res.st = "error" THEN upd
        ELSE [store |-> upd.store, res |-> Ok(<<>>, dep_ids, TRUE, {})]

\* one node per document: done, in_progress or pending
ConvexBackend_get_dependency_graph(store) ==
    LET docs == Convex_features_list(store)
        status(doc) == IF doc.passes THEN "done" ELSE IF doc.in_progress THEN "in_progress"
                       ELSE "pending"
    IN  [nodes |-> [i \in DOMAIN docs |->
                      [id |-> docs[i].featureId, label |-> <<docs[i].featureId, docs[i].name>>,
                       status |-> status(docs[i])]],
         edges |-> UNION {{[from |-> d, to |-> docs[i].featureId] : d \in Range(docs[i].dependencies)} :
                         i \in DOMAIN docs}]


\* ------------------------------------------------------------------------
\* Inputs of the interface calls
\* ------------------------------------------------------------------------

FeatureIds == 1..MaxFeatures

\* FeatureCreate(category, priority, dependencies); {} = not supplied
FeatureCreate(category, priority, dependencies) ==
    [category |-> category, name |-> "login", description |-> "desc", steps |-> <<"step">>,
     priority |-> priority, dependencies |-> dependencies]

\* FeatureUpdate with no field set
EmptyUpdate ==
    [category |-> {}, name |-> {}, description |-> {}, steps |-> {}, priority |-> {},
     dependencies |-> {}]

\* ------------------------------------------------------------------------
\* State
\* ------------------------------------------------------------------------

VARIABLES
    sqlite,         \* features table of the project database: rows and id counter
    features_md,    \* content of features.md: category sections with items
    convex,         \* feature documents of the project in the remote store
    target,         \* the backends the caller's calls are issued against
    issued,         \* per backend, the highest id a create call has returned
    ret,            \* the last call and what each backend returned
    factory,        \* BackendFactory: the cached instance, what the last call gave
    environ,        \* os.environ: XAHEEN_BACKEND_TYPE and CONVEX_URL
    schedule_rows,  \* schedules table of the project database: rows and id counter
    schedules_json, \* the file schedules.json of the markdown backend
    jobs,           \* ids of the schedules the job scheduler holds a job for
    context_json,   \* the file .xaheen/context.json: the keys of the stored dict
    roadmap_json,   \* the file .xaheen/roadmap.json: the stored roadmap dict
    ideas_file,     \* IdeationManager: the file .claude/ideation/ideas.json
    roadmap_file,   \* RoadmapManager: the file .claude/roadmap/roadmap.json
    writers,        \* per concurrent create_feature call on features.md: where it stands
    callers         \* per thread inside BackendFactory.get_backend: where it stands

\* the files of the ideation and roadmap managers
managers == <<ideas_file, roadmap_file>>

\* calls in progress side by side
threads == <<writers, callers>>

\* the two concurrent callers
Workers == {"w1", "w2"}

\* what lives beside the features: schedules, the scheduler's jobs, the
\* metadata files and the calls in progress
project ==
    <<schedule_rows, schedules_json, jobs, context_json, roadmap_json, managers, threads>>

vars == <<sqlite, features_md, convex, target, issued, ret, factory, environ, project>>

\* the record of a call: operation, arguments, result per backend
Call(op, id, dep, arg, sq, md, cx) ==
    [op |-> op, id |-> id, dep |-> dep, arg |-> arg, sq |-> sq, md |-> md, cx |-> cx]

NoResult == Ok(<<>>, <<>>, FALSE, {})

Backends == {"sqlite", "markdown", "convex"}

\* BackendFactory before the first access: _instance is None, nothing was
\* constructed or returned; instances are told apart by a serial number
NoFactory == [instance |-> {}, built |-> 0, returned |-> {}, raised |-> FALSE]

\* neither XAHEEN_BACKEND_TYPE nor CONVEX_URL is set
NoEnviron == [XAHEEN_BACKEND_TYPE |-> {}, CONVEX_URL |-> {}]

\* a JSON file that was never written
NoFile == [exists |-> FALSE, valid |-> TRUE, data |-> <<>>]

\* a new project: no schedule, no job, no metadata file
InitProject ==
    /\ schedule_rows = [db |-> <<>>, seq |-> 0]
    /\ schedules_json = NoFile
    /\ jobs = {}
    /\ context_json = NoFile
    /\ roadmap_json = NoFile
    /\ ideas_file = NoFile
    /\ roadmap_file = NoFile
    /\ writers = [w \in Workers |-> [pc |-> "idle", file |-> <<>>, new_id |-> 0]]
    /\ callers = [t \in Workers |-> [pc |-> "idle", got |-> {}]]

InitStores ==
    /\ sqlite = [db |-> <<>>, seq |-> 0]
    /\ features_md = <<>>
    /\ convex = [docs |-> <<>>, seq |-> 0]
    /\ issued = [sqlite |-> 0, markdown |-> 0, convex |-> 0]
    /\ ret = Call("init", 0, 0, <<>>, NoResult, NoResult, NoResult)
    /\ factory = NoFactory
    /\ environ = NoEnviron
    /\ InitProject

\* one backend is configured for the process and answers every call
Init ==
    /\ InitStores
    /\ \E b \in Backends : target = {b}

\* the markdown backend is the configured one
InitMarkdown ==
    /\ InitStores
    /\ target = {"markdown"}

\* the same calls are replayed against the relational and the markdown backend
InitReplay ==
    /\ InitStores
    /\ target = {"sqlite", "markdown"}

\* highest priority stored by any backend
MaxStoredPriority ==
    MaxOf({SQLiteMaxPriority(sqlite.db), ConvexMaxPriority(convex.docs),
           Len(MarkdownBackend_read_features_list(features_md))}, 0)

\* number of features created so far in the backend that created most
Created ==
    MaxOf({sqlite.seq, convex.seq,
           MaxOf(Ids(MarkdownBackend_read_features_list(features_md)), 0)}, 0)

\* ------------------------------------------------------------------------
\* Interface operations (BackendInterface): a call goes to every backend
\* in target
\* ------------------------------------------------------------------------

\* the highest id handed out, after a call that returned these features
Issued(before, op, feats) ==
    IF op \in {"create_feature", "create_features_bulk"}
    THEN MaxOf({before} \cup Ids(feats), 0)
    ELSE before

Apply(op, id, dep, arg, a, b, c) ==
    /\ sqlite' = IF "sqlite" \in target THEN a.store ELSE sqlite
    /\ features_md' = IF "markdown" \in target THEN b.store ELSE features_md
    /\ convex' = IF "convex" \in target THEN c.store ELSE convex
    /\ ret' = Call(op, id, dep, arg,
                   IF "sqlite" \in target THEN a.res ELSE NoResult,
                   IF "markdown" \in target THEN b.res ELSE NoResult,
                   IF "convex" \in target THEN c.res ELSE NoResult)
    /\ issued' = [sqlite |-> IF "sqlite" \in target
                             THEN Issued(issued.sqlite, op, a.res.feats) ELSE issued.sqlite,
                  markdown |-> IF "markdown" \in target
                               THEN Issued(issued.markdown, op, b.res.feats)
                               ELSE issued.markdown,
                  convex |-> IF "convex" \in target
                             THEN Issued(issued.convex, op, c.res.feats) ELSE issued.convex]
    /\ UNCHANGED <<target, factory, environ, project>>

\* a read: nothing is stored
Read(op, id, a, b, c) ==
    Apply(op, id, 0, <<>>, [store |-> sqlite, res |-> a],
          [store |-> features_md, res |-> b], [store |-> convex, res |-> c])

list_features ==
    Read("list_features", 0,
         [NoResult EXCEPT !.feats = <<SQLiteBackend_list_features(sqlite)>>],
         [NoResult EXCEPT !.feats = <<MarkdownBackend_list_features(features_md)>>],
         [NoResult EXCEPT !.feats = <<ConvexBackend_list_features(convex)>>])

create_feature(inputs) ==
    \E feature \in inputs :
        /\ Created < MaxFeatures
        /\ MaxStoredPriority < MaxPriority
        /\ Apply("create_feature", 0, 0, feature,
                 SQLiteBackend_create_feature(sqlite, feature),
                 MarkdownBackend_create_feature(features_md, feature),
                 ConvexBackend_create_feature(convex, feature))

create_features_bulk(inputs) ==
    \E bulk \in inputs :
        /\ Created + Len(bulk.features) <= MaxFeatures
        /\ MaxStoredPriority + Len(bulk.features) <= MaxPriority
        /\ Apply("create_features_bulk", 0, 0, bulk,
                 SQLiteBackend_create_features_bulk(sqlite, bulk),
                 MarkdownBackend_create_features_bulk(features_md, bulk),
                 ConvexBackend_create_features_bulk(convex, bulk))

get_feature ==
    \E feature_id \in FeatureIds :
        Read("get_feature", feature_id,
             SQLiteBackend_get_feature(sqlite, feature_id),
             MarkdownBackend_get_feature(features_md, feature_id),
             ConvexBackend_get_feature(convex, feature_id))

update_feature(inputs) ==
    \E feature_id \in FeatureIds, update \in inputs :
        Apply("update_feature", feature_id, 0, update,
              SQLiteBackend_update_feature(sqlite, feature_id, update),
              MarkdownBackend_update_feature(features_md, feature_id, update),
              ConvexBackend_update_feature(convex, feature_id, update))

delete_feature ==
    \E feature_id \in FeatureIds :
        Apply("delete_feature", feature_id, 0, <<>>,
              SQLiteBackend_delete_feature(sqlite, feature_id),
              MarkdownBackend_delete_feature(features_md, feature_id),
              ConvexBackend_delete_feature(convex, feature_id))

skip_feature ==
    \E feature_id \in FeatureIds :
        /\ MaxStoredPriority < MaxPriority
        /\ Apply("skip_feature", feature_id, 0, <<>>,
                 SQLiteBackend_skip_feature(sqlite, feature_id),
                 MarkdownBackend_skip_feature(features_md, feature_id),
                 ConvexBackend_skip_feature(convex, feature_id))

add_dependency ==
    \E feature_id \in FeatureIds, dep_id \in FeatureIds :
        /\ \A i \in DOMAIN convex.docs : Len(convex.docs[i].dependencies) < MaxDepsLen
        /\ Apply("add_dependency", feature_id, dep_id, <<>>,
              SQLiteBackend_add_dependency(sqlite, feature_id, dep_id),
              MarkdownBackend_add_dependency(features_md, feature_id, dep_id),
              ConvexBackend_add_dependency(convex, feature_id, dep_id))

remove_dependency ==
    \E feature_id \in FeatureIds, dep_id \in FeatureIds :
        Apply("remove_dependency", feature_id, dep_id, <<>>,
              SQLiteBackend_remove_dependency(sqlite, feature_id, dep_id),
              MarkdownBackend_remove_dependency(features_md, feature_id, dep_id),
              ConvexBackend_remove_dependency(convex, feature_id, dep_id))

set_dependencies(inputs) ==
    \E feature_id \in FeatureIds, dep_ids \in inputs :
        Apply("set_dependencies", feature_id, 0, dep_ids,
              SQLiteBackend_set_dependencies(sqlite, feature_id, dep_ids),
              MarkdownBackend_set_dependencies(features_md, feature_id, dep_ids),
              ConvexBackend_set_dependencies(convex, feature_id, dep_ids))

get_dependency_graph ==
    Read("get_dependency_graph", 0,
         [NoResult EXCEPT !.feats = <<SQLiteBackend_get_dependency_graph(sqlite)>>],
         [NoResult EXCEPT !.feats = <<MarkdownBackend_get_dependency_graph(features_md)>>],
         [NoResult EXCEPT !.feats = <<ConvexBackend_get_dependency_graph(convex)>>])


\* ------------------------------------------------------------------------
\* Status flags are written outside the interface: the agent marks a row
\* or document, a person edits the checkbox of an item in features.md
\* ------------------------------------------------------------------------

MarkRow(store, id, passes, in_progress) ==
    [store EXCEPT !.db = [i \in DOMAIN @ |->
        IF @[i].id = id THEN [@[i] EXCEPT !.passes = passes, !.in_progress = in_progress]
        ELSE @[i]]]

MarkDoc(store, id, passes, in_progress) ==
    [store EXCEPT !.docs = [i \in DOMAIN @ |->
        IF @[i].featureId = id THEN [@[i] EXCEPT !.passes = passes, !.in_progress = in_progress]
        ELSE @[i]]]

MarkItem(file, id, mark) ==
    [s \in DOMAIN file |->
        [file[s] EXCEPT !.items = [i \in DOMAIN @ |->
            IF @[i].id = id THEN [@[i] EXCEPT !.mark = mark] ELSE @[i]]]]

mark_status(inputs) ==
    \E id \in FeatureIds, flags \in inputs :
        Apply("mark_status", id, 0, flags,
              [store |-> MarkRow(sqlite, id, flags[1], flags[2]), res |-> NoResult],
              [store |-> MarkItem(features_md, id,
                                  IF flags[1] THEN "x" ELSE IF flags[2] THEN "/" ELSE " "),
               res |-> NoResult],
              [store |-> MarkDoc(convex, id, flags[1], flags[2]), res |-> NoResult])

\* ------------------------------------------------------------------------
\* Dependency-graph scenario: features of one category, dependency writes
\* ------------------------------------------------------------------------

GraphCreates == {FeatureCreate("General", {}, {})}

GraphUpdates == {[EmptyUpdate EXCEPT !.dependencies = {<<1>>}]}

GraphLists == {<<>>, <<1>>, <<2>>, <<3>>, <<1, 2>>, <<2, 3>>, <<3, 3>>}

NextGraph ==
    \/ create_feature(GraphCreates)
    \/ update_feature(GraphUpdates)
    \/ delete_feature
    \/ add_dependency
    \/ remove_dependency
    \/ set_dependencies(GraphLists)
    \/ get_feature
    \/ list_features

SpecGraph == Init /\ [][NextGraph]_vars

SpecGraphMarkdown == InitMarkdown /\ [][NextGraph]_vars

\* ------------------------------------------------------------------------
\* Status scenario: the flags passes / in_progress change, a feature may
\* depend on the first two features
\* ------------------------------------------------------------------------

StatusCreates == {FeatureCreate("General", {}, {})}

StatusUpdates ==
    {EmptyUpdate, [EmptyUpdate EXCEPT !.name = {"signup"}],
     [EmptyUpdate EXCEPT !.dependencies = {<<1, 2>>}]}

StatusMarks == {<<p, q>> : p, q \in BOOLEAN}

NextStatus ==
    \/ create_feature(StatusCreates)
    \/ update_feature(StatusUpdates)
    \/ mark_status(StatusMarks)
    \/ get_feature
    \/ list_features

SpecStatus == Init /\ [][NextStatus]_vars

SpecStatusMarkdown == InitMarkdown /\ [][NextStatus]_vars

\* ------------------------------------------------------------------------
\* Ordering scenario: categories, priorities and ids; creation, deletion
\* and skipping
\* ------------------------------------------------------------------------

OrderCreates == {FeatureCreate(c, p, {}) : c \in Categories, p \in Opt({1})}

OrderBulks ==
    [features : {<<>>, <<FeatureCreate("General", {}, {})>>,
                 <<FeatureCreate("API", {}, {}), FeatureCreate("General", {}, {})>>},
     starting_priority : Opt({2})]

OrderUpdates == {[EmptyUpdate EXCEPT !.category = {"API"}]}

NextOrder ==
    \/ create_feature(OrderCreates)
    \/ create_features_bulk(OrderBulks)
    \/ update_feature(OrderUpdates)
    \/ delete_feature
    \/ skip_feature
    \/ get_feature
    \/ list_features

SpecOrder == Init /\ [][NextOrder]_vars

SpecOrderMarkdown == InitMarkdown /\ [][NextOrder]_vars

\* the ordering scenario replayed against the relational and the markdown
\* backend
SpecReplay == InitReplay /\ [][NextOrder]_vars

\* ------------------------------------------------------------------------
\* Stored-dependency scenario: every operation of the relational backend
\* that writes a dependency list
\* ------------------------------------------------------------------------

\* the relational backend is the configured one
InitSQLite ==
    /\ InitStores
    /\ target = {"sqlite"}

StoredCreates == {FeatureCreate("General", {}, {}), FeatureCreate("General", {}, {<<2>>})}

StoredBulks ==
    {[features |-> <<FeatureCreate("General", {}, {<<1>>})>>, starting_priority |-> {}]}

StoredUpdates ==
    {[EmptyUpdate EXCEPT !.dependencies = {deps}] : deps \in {<<1>>, <<2, 2>>, <<1, 2, 3>>}}

NextStored ==
    \/ create_feature(StoredCreates)
    \/ create_features_bulk(StoredBulks)
    \/ update_feature(StoredUpdates)
    \/ delete_feature
    \/ add_dependency
    \/ remove_dependency
    \/ set_dependencies(GraphLists)
    \/ get_feature

SpecStored == InitSQLite /\ [][NextStored]_vars

\* ------------------------------------------------------------------------
\* Graph-view scenario: dependency writes, status flags, and the three
\* reads get_feature, list_features, get_dependency_graph
\* ------------------------------------------------------------------------

\* the document-store backend is the configured one
InitConvex ==
    /\ InitStores
    /\ target = {"convex"}

ViewCreates == {FeatureCreate("General", {}, {}), FeatureCreate("General", {}, {<<1>>})}

ViewLists == {<<>>, <<1>>, <<1, 2>>}

NextView ==
    \/ create_feature(ViewCreates)
    \/ add_dependency
    \/ remove_dependency
    \/ set_dependencies(ViewLists)
    \/ mark_status(StatusMarks)
    \/ get_feature
    \/ list_features
    \/ get_dependency_graph

\* the document store keeps dependencies and flags per feature: its graph
\* is read after the writes that shape it
NextViewConvex ==
    \/ create_feature(ViewCreates)
    \/ set_dependencies(ViewLists)
    \/ mark_status(StatusMarks)
    \/ get_dependency_graph

SpecViewConvex == InitConvex /\ [][NextViewConvex]_vars

SpecViewMarkdown == InitMarkdown /\ [][NextView]_vars

\* ------------------------------------------------------------------------
\* Round-trip scenario: a features.md written by hand, every item with
\* its id comment, is parsed, serialized and written back
\* ------------------------------------------------------------------------

DocMarks == {" ", "x", "/"}

DocItems ==
    {[mark |-> m, name |-> "login", id |-> n, steps |-> <<"step">>] :
        m \in DocMarks, n \in FeatureIds}

DocItemLists ==
    {<<a>> : a \in DocItems} \cup {<<a, b>> : <<a, b>> \in {p \in DocItems \X DocItems : p[1].id # p[2].id}}

DocSections == {[category |-> c, items |-> l] : c \in Categories, l \in DocItemLists}

DocIds(section) == {section.items[i].id : i \in DOMAIN section.items}

\* documents of at most two headings, no id used twice
Documents ==
    {<<>>} \cup {<<s>> : s \in DocSections}
    \cup {<<s, t>> : <<s, t>> \in {p \in DocSections \X DocSections :
                                     DocIds(p[1]) \cap DocIds(p[2]) = {}}}

InitDocument ==
    /\ sqlite = [db |-> <<>>, seq |-> 0]
    /\ convex = [docs |-> <<>>, seq |-> 0]
    /\ issued = [sqlite |-> 0, markdown |-> 0, convex |-> 0]
    /\ ret = Call("init", 0, 0, <<>>, NoResult, NoResult, NoResult)
    /\ factory = NoFactory
    /\ environ = NoEnviron
    /\ InitProject
    /\ target = {"markdown"}
    /\ features_md \in Documents

\* _serialize_features(_parse_features_md(content)) written back
round_trip ==
    LET features == MarkdownBackend_parse_features_md(features_md)
    IN  Apply("round_trip", 0, 0, <<>>,
              [store |-> sqlite, res |-> NoResult],
              [store |-> MarkdownBackend_serialize_features(features),
               res |-> Ok(features, <<>>, TRUE, {})],
              [store |-> convex, res |-> NoResult])

SpecRoundTrip == InitDocument /\ [][round_trip]_vars

\* ------------------------------------------------------------------------
\* Backend factory (BackendFactory): the process-wide cached instance,
\* with the environment changing under it
\* ------------------------------------------------------------------------

\* instances constructed in one run of the model
MaxInstances == 3

\* values XAHEEN_BACKEND_TYPE is set to
BackendTypes == {"sqlite", "SQLite", "markdown", "convex", "redis"}

\* str.lower() on these values
Lower(v) == IF v = "SQLite" THEN "sqlite" ELSE v

\* os.getenv("XAHEEN_BACKEND_TYPE", "sqlite").lower()
ConfiguredType(env) ==
    Lower(IF env.XAHEEN_BACKEND_TYPE = {} THEN "sqlite" ELSE Val(env.XAHEEN_BACKEND_TYPE))

\* the constructor returns: SQLiteBackend() and MarkdownBackend() always,
\* ConvexBackend() only with CONVEX_URL set; any other type raises
Constructs(backend_type, env) ==
    \/ backend_type \in {"sqlite", "markdown"}
    \/ backend_type = "convex" /\ env.CONVEX_URL # {}

\* get_backend that reads the configuration on every call
BackendFactoryUncached_get_backend(f, env) ==
    LET backend_type == ConfiguredType(env)
        made == [type |-> backend_type, serial |-> f.built + 1]
    IN  IF Constructs(backend_type, env)
        THEN [instance |-> {made}, built |-> f.built + 1, returned |-> {made},
              raised |-> FALSE]
        ELSE [f EXCEPT !.returned = {}, !.raised = TRUE]

\* get_backend that answers an unknown or failing configuration with the
\* default backend
BackendFactoryFallback_get_backend(f, env) ==
    LET backend_type == IF Constructs(ConfiguredType(env), env)
                        THEN ConfiguredType(env) ELSE "sqlite"
        made == [type |-> backend_type, serial |-> f.built + 1]
    IN  IF f.instance # {} THEN [f EXCEPT !.returned = f.instance, !.raised = FALSE]
        ELSE [instance |-> {made}, built |-> f.built + 1, returned |-> {made},
              raised |-> FALSE]

BackendFactory_get_backend(f, env) ==
    LET backend_type == ConfiguredType(env)
        made == [type |-> backend_type, serial |-> f.built + 1]
    IN  IF f.instance # {} THEN [f EXCEPT !.returned = f.instance, !.raised = FALSE]
        ELSE IF Constructs(backend_type, env)
        THEN [instance |-> {made}, built |-> f.built + 1, returned |-> {made},
              raised |-> FALSE]
        ELSE [f EXCEPT !.returned = {}, !.raised = TRUE]

BackendFactory_reset(f) == [f EXCEPT !.instance = {}]

\* no backend has been handed out yet
InitFactory ==
    /\ InitStores
    /\ target = {}

\* a caller asks for the backend; target follows the instance it was given
get_backend ==
    /\ BackendFactory_get_backend(factory, environ).built <= MaxInstances
    /\ factory' = BackendFactory_get_backend(factory, environ)
    /\ target' = {i.type : i \in factory'.returned}
    /\ ret' = Call("get_backend", 0, 0, <<>>, NoResult, NoResult, NoResult)
    /\ UNCHANGED <<sqlite, features_md, convex, issued, environ, project>>

reset ==
    /\ factory' = BackendFactory_reset(factory)
    /\ ret' = Call("reset", 0, 0, <<>>, NoResult, NoResult, NoResult)
    /\ UNCHANGED <<sqlite, features_md, convex, issued, environ, target, project>>

\* the environment is changed from outside the factory
setenv ==
    \E backend_type \in Opt(BackendTypes), url \in Opt({"https://convex"}) :
        /\ environ' = [XAHEEN_BACKEND_TYPE |-> backend_type, CONVEX_URL |-> url]
        /\ ret' = Call("setenv", 0, 0, <<>>, NoResult, NoResult, NoResult)
        /\ UNCHANGED <<sqlite, features_md, convex, issued, factory, target, project>>

NextFactory ==
    \/ get_backend
    \/ reset
    \/ setenv

SpecFactory == InitFactory /\ [][NextFactory]_vars

\* ------------------------------------------------------------------------
\* Schedules: the backends persist them, the schedules router keeps the
\* job scheduler in step (routers/schedules.py)
\* ------------------------------------------------------------------------

\* the literal cap in SQLiteBackend.create_schedule
MaxSchedulesPerProject == 50

\* ids handed out in the cap scenario / in the scheduler scenario
MaxScheduleId == 52
MaxJobId == 2

\* a schedule is told apart by its id and carries the enabled flag; its
\* time window takes no part in any decision of the backends or the router
SQLiteBackend_create_schedule(store, data) ==
    IF Len(store.db) >= MaxSchedulesPerProject
    THEN [store |-> store, res |-> Raise("Max schedules exceeded")]
    ELSE LET s == [id |-> store.seq + 1, enabled |-> data.enabled]
         IN  [store |-> [db |-> Append(store.db, s), seq |-> store.seq + 1],
              res |-> Ok(<<s>>, <<>>, TRUE, {})]

\* update.model_dump(exclude_unset=True): enabled is {} when the request
\* leaves it out
SQLiteBackend_update_schedule(store, schedule_id, update) ==
    LET i == IndexOf(store.db, schedule_id)
        s == IF update.enabled = {} THEN store.db[i]
             ELSE [store.db[i] EXCEPT !.enabled = Val(update.enabled)]
    IN  IF i = 0 THEN [store |-> store, res |-> Raise("Schedule not found")]
        ELSE [store |-> [store EXCEPT !.db[i] = s], res |-> Ok(<<s>>, <<>>, TRUE, {})]

SQLiteBackend_delete_schedule(store, schedule_id) ==
    IF IndexOf(store.db, schedule_id) = 0
    THEN [store |-> store, res |-> Ok(<<>>, <<>>, FALSE, {})]
    ELSE [store |-> [store EXCEPT !.db = SelectSeq(@, LAMBDA s : s.id # schedule_id)],
          res |-> Ok(<<>>, <<>>, TRUE, {})]

\* a missing file and a file json.load or ScheduleResponse(**d) rejects
\* both read as no schedules
MarkdownBackend_read_schedules_list(file) ==
    IF file.exists /\ file.valid THEN file.data ELSE <<>>

MarkdownBackend_save_schedules_list(schedules) ==
    [exists |-> TRUE, valid |-> TRUE, data |-> schedules]

MarkdownBackend_create_schedule(file, schedule) ==
    LET schedules == MarkdownBackend_read_schedules_list(file)
        new_schedule == [id |-> MaxOf(Ids(schedules), 0) + 1, enabled |-> schedule.enabled]
    IN  [store |-> MarkdownBackend_save_schedules_list(Append(schedules, new_schedule)),
         res |-> Ok(<<new_schedule>>, <<>>, TRUE, {})]

MarkdownBackend_update_schedule(file, schedule_id, update) ==
    LET schedules == MarkdownBackend_read_schedules_list(file)
        target_idx == IndexOf(schedules, schedule_id)
        updated == IF update.enabled = {} THEN schedules[target_idx]
                   ELSE [schedules[target_idx] EXCEPT !.enabled = Val(update.enabled)]
    IN  IF target_idx = 0 THEN [store |-> file, res |-> Raise("Schedule not found")]
        ELSE [store |-> MarkdownBackend_save_schedules_list(
                            [schedules EXCEPT ![target_idx] = updated]),
              res |-> Ok(<<updated>>, <<>>, TRUE, {})]

MarkdownBackend_delete_schedule(file, schedule_id) ==
    LET schedules == MarkdownBackend_read_schedules_list(file)
        new_list == SelectSeq(schedules, LAMBDA s : s.id # schedule_id)
    IN  IF Len(new_list) = Len(schedules)
        THEN [store |-> file, res |-> Ok(<<>>, <<>>, FALSE, {})]
        ELSE [store |-> MarkdownBackend_save_schedules_list(new_list),
              res |-> Ok(<<>>, <<>>, TRUE, {})]

\* a request of the schedules router: the backend call of the configured
\* backend, then the scheduler calls the handler made, giving the jobs the
\* scheduler holds afterwards
Request(op, id, arg, a, b, after) ==
    /\ schedule_rows' = IF "sqlite" \in target THEN a.store ELSE schedule_rows
    /\ schedules_json' = IF "markdown" \in target THEN b.store ELSE schedules_json
    /\ jobs' = after
    /\ ret' = Call(op, id, 0, arg,
                   IF "sqlite" \in target THEN a.res ELSE NoResult,
                   IF "markdown" \in target THEN b.res ELSE NoResult, NoResult)
    /\ UNCHANGED <<sqlite, features_md, convex, target, issued, factory, environ,
                   context_json, roadmap_json, managers, threads>>

\* what the configured backend answered
Answer(a, b) == IF "sqlite" \in target THEN a.res ELSE b.res

\* the id the configured backend gives the next schedule
NextScheduleId ==
    IF "sqlite" \in target THEN schedule_rows.seq + 1
    ELSE MaxOf(Ids(MarkdownBackend_read_schedules_list(schedules_json)), 0) + 1

\* POST: the job is added for an enabled schedule; a scheduler call that
\* raises ("add" in fault) is logged and the request still succeeds
create_schedule(inputs, faults, limit) ==
    \E schedule \in inputs, fault \in faults :
        LET a == SQLiteBackend_create_schedule(schedule_rows, schedule)
            b == MarkdownBackend_create_schedule(schedules_json, schedule)
            r == Answer(a, b)
        IN  /\ NextScheduleId <= limit
            /\ Request("create_schedule", 0, <<schedule, fault>>, a, b,
                       IF r.st = "ok" /\ r.feats[1].enabled /\ fault # "add"
                       THEN jobs \cup {r.feats[1].id} ELSE jobs)

\* PATCH: the job is removed and, for an enabled schedule, added again; a
\* scheduler call that raises ends the handler where it stands
update_schedule(inputs, faults, ids) ==
    \E schedule_id \in ids, update \in inputs, fault \in faults :
        LET a == SQLiteBackend_update_schedule(schedule_rows, schedule_id, update)
            b == MarkdownBackend_update_schedule(schedules_json, schedule_id, update)
            r == Answer(a, b)
        IN  Request("update_schedule", schedule_id, <<update, fault>>, a, b,
                    IF r.st # "ok" \/ fault = "remove" THEN jobs
                    ELSE IF r.feats[1].enabled /\ fault # "add"
                    THEN jobs \cup {schedule_id} ELSE jobs \ {schedule_id})

\* DELETE: 404 when the backend found nothing to delete, else the job is
\* removed
delete_schedule(faults, ids) ==
    \E schedule_id \in ids, fault \in faults :
        LET a == SQLiteBackend_delete_schedule(schedule_rows, schedule_id)
            b == MarkdownBackend_delete_schedule(schedules_json, schedule_id)
            r == Answer(a, b)
        IN  Request("delete_schedule", schedule_id, <<fault>>, a, b,
                    IF r.flag /\ fault # "remove" THEN jobs \ {schedule_id} ELSE jobs)

\* the relational or the markdown backend is the configured one
InitSchedules ==
    /\ InitStores
    /\ \E b \in {"sqlite", "markdown"} : target = {b}

\* Cap scenario: schedules are created up to and past the cap and the
\* oldest and newest of them deleted, with a scheduler that never fails
NextCap ==
    \/ create_schedule({[enabled |-> FALSE]}, {"none"}, MaxScheduleId)
    \/ delete_schedule({"none"}, {1, 2, MaxSchedulesPerProject, MaxSchedulesPerProject + 1})

SpecCap == InitSchedules /\ [][NextCap]_vars

\* Scheduler scenario: a few schedules, enabled or not, created, switched
\* and deleted, with a scheduler whose calls may raise
NextJobs ==
    \/ create_schedule({[enabled |-> e] : e \in BOOLEAN}, {"none", "add"}, MaxJobId)
    \/ update_schedule({[enabled |-> e] : e \in Opt(BOOLEAN)}, {"none", "remove", "add"},
                       1..MaxJobId)
    \/ delete_schedule({"none", "remove"}, 1..MaxJobId)

SpecJobs == InitSchedules /\ [][NextJobs]_vars

\* ------------------------------------------------------------------------
\* Features router (routers/features.py): a backend exception becomes an
\* HTTP status by what its message contains
\* ------------------------------------------------------------------------

\* str(e).lower() as a sequence of characters, for the messages the
\* backends raise and for the phrases the router looks for; a name in
\* braces stands for the value formatted into the message
Lowered(msg) ==
    CASE msg = "Cannot depend on self" ->
           <<"c", "a", "n", "n", "o", "t", " ", "d", "e", "p", "e", "n",
           "d", " ", "o", "n", " ", "s", "e", "l", "f">>
      [] msg = "Cannot edit completed feature" ->
           <<"c", "a", "n", "n", "o", "t", " ", "e", "d", "i", "t", " ",
           "c", "o", "m", "p", "l", "e", "t", "e", "d", " ", "f", "e", "a",
           "t", "u", "r", "e">>
      [] msg = "Circular dependency detected with {dep_id}" ->
           <<"c", "i", "r", "c", "u", "l", "a", "r", " ", "d", "e", "p",
           "e", "n", "d", "e", "n", "c", "y", " ", "d", "e", "t", "e", "c",
           "t", "e", "d", " ", "w", "i", "t", "h", " ", "{", "d", "e", "p",
           "_", "i", "d", "}">>
      [] msg = "Dependencies not found: {missing}" ->
           <<"d", "e", "p", "e", "n", "d", "e", "n", "c", "i", "e", "s",
           " ", "n", "o", "t", " ", "f", "o", "u", "n", "d", ":", " ", "{",
           "m", "i", "s", "s", "i", "n", "g", "}">>
      [] msg = "Dependency already exists" ->
           <<"d", "e", "p", "e", "n", "d", "e", "n", "c", "y", " ", "a",
           "l", "r", "e", "a", "d", "y", " ", "e", "x", "i", "s", "t", "s">>
      [] msg = "Dependency does not exist" ->
           <<"d", "e", "p", "e", "n", "d", "e", "n", "c", "y", " ", "d",
           "o", "e", "s", " ", "n", "o", "t", " ", "e", "x", "i", "s", "t">>
      [] msg = "Dependency {id} not found" ->
           <<"d", "e", "p", "e", "n", "d", "e", "n", "c", "y", " ", "{",
           "i", "d", "}", " ", "n", "o", "t", " ", "f", "o", "u", "n", "d">>
      [] msg = "Duplicate dependencies" ->
           <<"d", "u", "p", "l", "i", "c", "a", "t", "e", " ", "d", "e",
           "p", "e", "n", "d", "e", "n", "c", "i", "e", "s">>
      [] msg = "Feature not found" ->
           <<"f", "e", "a", "t", "u", "r", "e", " ", "n", "o", "t", " ",
           "f", "o", "u", "n", "d">>
      [] msg = "Feature {id} not found" ->
           <<"f", "e", "a", "t", "u", "r", "e", " ", "{", "i", "d", "}",
           " ", "n", "o", "t", " ", "f", "o", "u", "n", "d">>
      [] msg = "Max dependencies ({n}) exceeded" ->
           <<"m", "a", "x", " ", "d", "e", "p", "e", "n", "d", "e", "n",
           "c", "i", "e", "s", " ", "(", "{", "n", "}", ")", " ", "e", "x",
           "c", "e", "e", "d", "e", "d">>
      [] msg = "Max schedules exceeded" ->
           <<"m", "a", "x", " ", "s", "c", "h", "e", "d", "u", "l", "e",
           "s", " ", "e", "x", "c", "e", "e", "d", "e", "d">>
      [] msg = "Schedule not found" ->
           <<"s", "c", "h", "e", "d", "u", "l", "e", " ", "n", "o", "t",
           " ", "f", "o", "u", "n", "d">>
      [] msg = "Would create circular dependency" ->
           <<"w", "o", "u", "l", "d", " ", "c", "r", "e", "a", "t", "e",
           " ", "c", "i", "r", "c", "u", "l", "a", "r", " ", "d", "e", "p",
           "e", "n", "d", "e", "n", "c", "y">>
      [] msg = "not found" ->
           <<"n", "o", "t", " ", "f", "o", "u", "n", "d">>
      [] msg = "already exists" ->
           <<"a", "l", "r", "e", "a", "d", "y", " ", "e", "x", "i", "s",
           "t", "s">>
      [] msg = "circular" ->
           <<"c", "i", "r", "c", "u", "l", "a", "r">>
      [] msg = "self" ->
           <<"s", "e", "l", "f">>

\* needle in text
In(needle, text) ==
    \E i \in 0..(Len(text) - Len(needle)) : SubSeq(text, i + 1, i + Len(needle)) = needle

\* the status code of the HTTPException raised for the message of e
handle_backend_error(e) ==
    LET msg == Lowered(e)
    IN  IF In(Lowered("not found"), msg) THEN 404
        ELSE IF \/ In(Lowered("already exists"), msg)
                \/ In(Lowered("circular"), msg)
                \/ In(Lowered("self"), msg)
        THEN 400
        ELSE 500

\* ------------------------------------------------------------------------
\* Reads of persisted files: context.json, roadmap.json and schedules.json
\* are read back whatever a person or an interrupted write left in them
\* ------------------------------------------------------------------------

\* a read through the backend: no file changes
Reads(op, a, b) ==
    /\ ret' = Call(op, 0, 0, <<>>,
                   IF "sqlite" \in target THEN a ELSE NoResult,
                   IF "markdown" \in target THEN b ELSE NoResult, NoResult)
    /\ UNCHANGED <<sqlite, features_md, convex, target, issued, factory, environ, project>>

\* json.loads on a file that is not valid JSON raises JSONDecodeError; the
\* three backends carry the same lines for the metadata files
get_context ==
    LET r == IF ~context_json.exists THEN Ok(<<>>, <<>>, TRUE, {})
             ELSE IF context_json.valid THEN Ok(<<>>, <<>>, TRUE, context_json.data)
             ELSE Raise("JSONDecodeError")
    IN  Reads("get_context", r, r)

DefaultRoadmap == [phases |-> <<>>, milestones |-> <<>>, currentPhase |-> {}]

get_roadmap ==
    LET r == IF ~roadmap_json.exists THEN Ok(<<DefaultRoadmap>>, <<>>, TRUE, {})
             ELSE IF roadmap_json.valid THEN Ok(<<roadmap_json.data>>, <<>>, TRUE, {})
             ELSE Raise("JSONDecodeError")
    IN  Reads("get_roadmap", r, r)

\* the relational backend queries its table, the markdown backend returns
\* what _read_schedules_list gives
list_schedules ==
    Reads("list_schedules", Ok(schedule_rows.db, <<>>, TRUE, {}),
          Ok(MarkdownBackend_read_schedules_list(schedules_json), <<>>, TRUE, {}))

\* a file is left with some valid content or with text that is not JSON
edit_file ==
    /\ \E file \in {"context.json", "roadmap.json", "schedules.json"}, valid \in BOOLEAN :
          /\ context_json' = IF file # "context.json" THEN context_json
                             ELSE [exists |-> TRUE, valid |-> valid, data |-> {"stack"}]
          /\ roadmap_json' = IF file # "roadmap.json" THEN roadmap_json
                             ELSE [exists |-> TRUE, valid |-> valid,
                                   data |-> [DefaultRoadmap EXCEPT !.phases = <<"mvp">>]]
          /\ schedules_json' = IF file # "schedules.json" THEN schedules_json
                               ELSE [exists |-> TRUE, valid |-> valid,
                                     data |-> <<[id |-> 1, enabled |-> TRUE]>>]
          /\ ret' = Call("edit_file", 0, 0, <<file, valid>>, NoResult, NoResult, NoResult)
    /\ UNCHANGED <<sqlite, features_md, convex, target, issued, factory, environ,
                   schedule_rows, jobs, managers, threads>>

NextFiles ==
    \/ get_context
    \/ get_roadmap
    \/ list_schedules
    \/ edit_file
    \/ create_schedule({[enabled |-> FALSE]}, {"none"}, MaxJobId)

SpecFiles == InitSchedules /\ [][NextFiles]_vars

\* ------------------------------------------------------------------------
\* Ideation manager (services/ideation.py): saved ideas in ideas.json
\* ------------------------------------------------------------------------

\* what a manager call was given and what it returned
Returned(op, arg, res) == [op |-> op, arg |-> arg, res |-> res]

\* str.lower().strip() on the titles and descriptions ideas arrive with
LowerStrip(text) ==
    CASE text \in {"Dark mode", " DARK MODE "} -> "dark mode"
      [] text = "Export" -> "export"
      [] text \in {"Theme", "theme  "} -> "theme"
      [] text = "" -> ""

\* dict.get(key, '') for a key that may be missing
GetText(field) == IF field = {} THEN "" ELSE Val(field)

\* the ideas save_idea is called with: id, title, description, each
\* present or not
Ideas ==
    [id : Opt({"idea_1", "idea_2"}), title : Opt({"Dark mode", " DARK MODE ", "Export"}),
     description : Opt({"Theme", "theme  "})]

\* save_idea that compares title and description as they are written
save_idea_verbatim ==
    \E idea \in Ideas :
        LET ideas == IF ideas_file.exists /\ ideas_file.valid THEN ideas_file.data ELSE <<>>
            duplicate ==
                \E i \in DOMAIN ideas :
                    \/ ideas[i].id = idea.id
                    \/ /\ GetText(idea.title) = GetText(ideas[i].title)
                       /\ GetText(idea.description) = GetText(ideas[i].description)
        IN  /\ ideas_file' = IF duplicate THEN ideas_file
                             ELSE [exists |-> TRUE, valid |-> TRUE, data |-> Append(ideas, idea)]
            /\ ret' = Returned("save_idea", idea, TRUE)
            /\ UNCHANGED <<sqlite, features_md, convex, target, issued, factory, environ,
                           schedule_rows, schedules_json, jobs, context_json, roadmap_json,
                           roadmap_file, threads>>

\* get_saved_ideas reads [] from a missing or unreadable file; the loop
\* returns True at the first saved idea with the same id or the same
\* lowered and stripped title and description, before anything is
\* written; the saved/saved_at marks take no part in any comparison
save_idea ==
    \E idea \in Ideas :
        LET ideas == IF ideas_file.exists /\ ideas_file.valid THEN ideas_file.data ELSE <<>>
            idea_title == LowerStrip(GetText(idea.title))
            idea_desc == LowerStrip(GetText(idea.description))
            duplicate ==
                \E i \in DOMAIN ideas :
                    \/ ideas[i].id = idea.id
                    \/ /\ idea_title = LowerStrip(GetText(ideas[i].title))
                       /\ idea_desc = LowerStrip(GetText(ideas[i].description))
        IN  /\ ideas_file' = IF duplicate THEN ideas_file
                             ELSE [exists |-> TRUE, valid |-> TRUE, data |-> Append(ideas, idea)]
            /\ ret' = Returned("save_idea", idea, TRUE)
            /\ UNCHANGED <<sqlite, features_md, convex, target, issued, factory, environ,
                           schedule_rows, schedules_json, jobs, context_json, roadmap_json,
                           roadmap_file, threads>>

\* no backend takes part
SpecIdeation == InitFactory /\ [][save_idea]_vars

\* ------------------------------------------------------------------------
\* Roadmap manager (services/roadmap.py): the roadmap in roadmap.json
\* ------------------------------------------------------------------------

\* features a roadmap holds in one run of the model
MaxRoadmapFeatures == 3

\* the empty roadmap read from a missing or unreadable file
RoadmapManager_get_roadmap(file) ==
    IF file.exists /\ file.valid THEN file.data
    ELSE [features |-> <<>>, total_estimated_days |-> 0]

\* sum(f.get('estimated_days', 0) for f in features)
RECURSIVE SumEstimatedDays(_)
SumEstimatedDays(features) ==
    IF features = <<>> THEN 0
    ELSE (IF Head(features).estimated_days = {} THEN 0 ELSE Val(Head(features).estimated_days))
         + SumEstimatedDays(Tail(features))

\* a manager call wrote the roadmap (save_roadmap) and returned True
Saved(op, arg, roadmap) ==
    /\ roadmap_file' = [exists |-> TRUE, valid |-> TRUE, data |-> roadmap]
    /\ ret' = Returned(op, arg, TRUE)
    /\ UNCHANGED <<sqlite, features_md, convex, target, issued, factory, environ,
                   schedule_rows, schedules_json, jobs, context_json, roadmap_json,
                   ideas_file, threads>>

RoadmapManager_add_feature ==
    \E feature \in [id : {"f1", "f2"}, estimated_days : Opt({1, 2})] :
        LET roadmap == RoadmapManager_get_roadmap(roadmap_file)
            features == Append(roadmap.features, feature)
        IN  /\ Len(roadmap.features) < MaxRoadmapFeatures
            /\ Saved("add_feature", feature,
                     [features |-> features,
                      total_estimated_days |-> SumEstimatedDays(features)])

\* delete_feature that keeps the total it read
RoadmapManager_delete_feature_stale ==
    \E feature_id \in {"f1", "f2"} :
        LET roadmap == RoadmapManager_get_roadmap(roadmap_file)
            features == SelectSeq(roadmap.features, LAMBDA f : f.id # feature_id)
        IN  Saved("delete_feature", feature_id,
                  [features |-> features,
                   total_estimated_days |-> roadmap.total_estimated_days])

RoadmapManager_delete_feature ==
    \E feature_id \in {"f1", "f2"} :
        LET roadmap == RoadmapManager_get_roadmap(roadmap_file)
            features == SelectSeq(roadmap.features, LAMBDA f : f.id # feature_id)
        IN  Saved("delete_feature", feature_id,
                  [features |-> features,
                   total_estimated_days |-> SumEstimatedDays(features)])

\* feature.update(updates) on the first feature with this id: the total is
\* not recalculated
RoadmapManager_update_feature ==
    \E feature_id \in {"f1", "f2"}, estimated_days \in {1, 2} :
        LET roadmap == RoadmapManager_get_roadmap(roadmap_file)
            i == IndexOf(roadmap.features, feature_id)
        IN  Saved("update_feature", <<feature_id, estimated_days>>,
                  IF i = 0 THEN roadmap
                  ELSE [roadmap EXCEPT !.features[i].estimated_days = {estimated_days}])

NextRoadmap ==
    \/ RoadmapManager_add_feature
    \/ RoadmapManager_delete_feature
    \/ RoadmapManager_update_feature

\* no backend takes part
SpecRoadmap == InitFactory /\ [][NextRoadmap]_vars

\* ------------------------------------------------------------------------
\* Markdown backend with two writers: create_feature reads features.md,
\* builds the new list in memory and writes the file back, and another
\* call may run between the read and the write
\* ------------------------------------------------------------------------

\* a writer enters create_feature and reads the file (_read_features_list)
create_feature_read ==
    \E w \in Workers :
        /\ writers[w].pc # "read"
        /\ Created < MaxFeatures
        /\ writers' = [writers EXCEPT ![w] = [pc |-> "read", file |-> features_md,
                                              new_id |-> 0]]
        /\ ret' = Call("create_feature.read", 0, 0, <<w>>, NoResult, NoResult, NoResult)
        /\ UNCHANGED <<sqlite, features_md, convex, target, issued, factory, environ,
                       schedule_rows, schedules_json, jobs, context_json, roadmap_json,
                       managers, callers>>

\* a writer that reads the file again under a lock before it writes
create_feature_save_locked ==
    \E w \in Workers, category \in Categories :
        LET r == MarkdownBackend_create_feature(
                     features_md, [FeatureCreate(category, {}, {}) EXCEPT !.name = w])
        IN  /\ writers[w].pc = "read"
            /\ features_md' = r.store
            /\ writers' = [writers EXCEPT ![w].pc = "done", ![w].new_id = r.res.feats[1].id]
            /\ ret' = Call("create_feature.save", 0, 0, <<w>>, NoResult, r.res, NoResult)
            /\ UNCHANGED <<sqlite, convex, target, issued, factory, environ,
                           schedule_rows, schedules_json, jobs, context_json, roadmap_json,
                           managers, callers>>

\* the writer appends its feature, named after it, to the list it read,
\* writes the file (_save_features_list) and returns the feature
create_feature_save ==
    \E w \in Workers, category \in Categories :
        LET r == MarkdownBackend_create_feature(
                     writers[w].file, [FeatureCreate(category, {}, {}) EXCEPT !.name = w])
        IN  /\ writers[w].pc = "read"
            /\ features_md' = r.store
            /\ writers' = [writers EXCEPT ![w].pc = "done", ![w].new_id = r.res.feats[1].id]
            /\ ret' = Call("create_feature.save", 0, 0, <<w>>, NoResult, r.res, NoResult)
            /\ UNCHANGED <<sqlite, convex, target, issued, factory, environ,
                           schedule_rows, schedules_json, jobs, context_json, roadmap_json,
                           managers, callers>>

\* calls that run alone, and the two writers
NextWriters ==
    \/ create_feature(OrderCreates)
    \/ create_feature_read
    \/ create_feature_save

SpecWriters == InitMarkdown /\ [][NextWriters]_vars

\* ------------------------------------------------------------------------
\* Backend factory entered by two threads: get_backend tests _instance,
\* constructs and assigns, and returns _instance, with no lock around the
\* three steps
\* ------------------------------------------------------------------------

\* if cls._instance is None
get_backend_test ==
    \E t \in Workers :
        /\ callers[t].pc = "idle"
        /\ callers' = [callers EXCEPT ![t] = [pc |-> IF factory.instance = {} THEN "construct"
                                                     ELSE "return",
                                              got |-> {}]]
        /\ ret' = Call("get_backend.test", 0, 0, <<t>>, NoResult, NoResult, NoResult)
        /\ UNCHANGED <<sqlite, features_md, convex, target, issued, factory, environ,
                       schedule_rows, schedules_json, jobs, context_json, roadmap_json,
                       managers, writers>>

\* the branch on the configured type: the constructed backend is assigned
\* to _instance, or the ValueError leaves the call
get_backend_construct ==
    \E t \in Workers :
        LET backend_type == ConfiguredType(environ)
            made == [type |-> backend_type, serial |-> factory.built + 1]
            constructs == Constructs(backend_type, environ)
        IN  /\ callers[t].pc = "construct"
            /\ factory.built < MaxInstances
            /\ factory' = IF constructs
                          THEN [factory EXCEPT !.instance = {made}, !.built = @ + 1]
                          ELSE [factory EXCEPT !.raised = TRUE]
            /\ callers' = [callers EXCEPT ![t].pc = IF constructs THEN "return" ELSE "idle"]
            /\ ret' = Call("get_backend.construct", 0, 0, <<t>>, NoResult, NoResult, NoResult)
            /\ UNCHANGED <<sqlite, features_md, convex, target, issued, environ,
                           schedule_rows, schedules_json, jobs, context_json, roadmap_json,
                           managers, writers>>

\* return cls._instance
get_backend_return ==
    \E t \in Workers :
        /\ callers[t].pc = "return"
        /\ callers' = [callers EXCEPT ![t] = [pc |-> "idle", got |-> factory.instance]]
        /\ factory' = [factory EXCEPT !.returned = factory.instance, !.raised = FALSE]
        /\ ret' = Call("get_backend.return", 0, 0, <<t>>, NoResult, NoResult, NoResult)
        /\ UNCHANGED <<sqlite, features_md, convex, target, issued, environ,
                       schedule_rows, schedules_json, jobs, context_json, roadmap_json,
                       managers, writers>>

\* the process starts with nothing cached; the configuration may change
\* while the threads are at it
NextThreads ==
    \/ get_backend_test
    \/ get_backend_construct
    \/ get_backend_return
    \/ setenv

SpecThreads == InitFactory /\ [][NextThreads]_vars

\* ------------------------------------------------------------------------
\* Properties
\* ------------------------------------------------------------------------

\* the features a backend holds, as a list of records with id / dependencies
SQLiteFeatures == sqlite.db

MarkdownFeatures == MarkdownBackend_read_features_list(features_md)

ConvexFeatures ==
    [i \in DOMAIN convex.docs |-> ConvexBackend_feature_from_convex(convex.docs[i])]

\* edges f -> d of a feature list
Edges(features) ==
    {<<features[i].id, d>> : i \in DOMAIN features, d \in FeatureIds} \cap
    {e \in FeatureIds \X FeatureIds :
        \E i \in DOMAIN features :
            features[i].id = e[1] /\ Contains(features[i].dependencies, e[2])}

\* no directed cycle: every nonempty set of nodes has a node without an
\* edge into the set
Acyclic(edges) ==
    \A S \in (SUBSET FeatureIds) \ {{}} :
        \E n \in S : \A m \in S : <<n, m>> \notin edges

\* the edge set a dependency call asks for
RequestedEdges(edges, call) ==
    IF call.op = "add_dependency" THEN edges \cup {<<call.id, call.dep>>}
    ELSE {e \in edges : e[1] # call.id} \cup {<<call.id, d>> : d \in Range(call.arg)}

\* messages of the invariant violations the relational backend raises
InvariantViolations ==
    {"Cannot depend on self", "Max dependencies ({n}) exceeded", "Dependency already exists",
     "Would create circular dependency", "Cannot edit completed feature",
     "Duplicate dependencies", "Circular dependency detected with {dep_id}"}

C2_SelfDependencyRejected ==
    [][(ret'.op = "add_dependency" /\ ret'.id = ret'.dep)
       => /\ ("sqlite" \in target /\ ret'.id \in Ids(SQLiteFeatures))
                => /\ ret'.sq.st = "error" /\ ret'.sq.err \in InvariantViolations
                   /\ sqlite' = sqlite
          /\ ("markdown" \in target /\ ret'.id \in Ids(MarkdownFeatures))
                => /\ ret'.md.st = "error" /\ ret'.md.err \in InvariantViolations
                   /\ features_md' = features_md
          /\ ("convex" \in target /\ ret'.id \in Ids(ConvexFeatures))
                => /\ ret'.cx.st = "error" /\ ret'.cx.err \in InvariantViolations
                   /\ convex' = convex]_vars

\* messages of the not-found errors
NotFoundMessages ==
    {"Feature {id} not found", "Dependency {id} not found",
     "Dependencies not found: {missing}", "Feature not found"}

\* what a caller tells apart: success, or the kind of the error
OutcomeKind(r) ==
    IF r.st = "ok" THEN "ok"
    ELSE IF r.err \in NotFoundMessages THEN "not_found"
    ELSE IF r.err \in InvariantViolations THEN "invariant_violation"
    ELSE "other"

FeatureFields(f) ==
    [id |-> f.id, priority |-> f.priority, dependencies |-> f.dependencies,
     passes |-> f.passes, in_progress |-> f.in_progress]

FieldsOf(feats) == [i \in DOMAIN feats |-> FeatureFields(feats[i])]

\* the FeatureResponse objects of a result
ResponsesOf(op, r) ==
    IF op = "list_features"
    THEN r.feats[1].pending \o r.feats[1].in_progress \o r.feats[1].done
    ELSE r.feats

\* the outcome of a call as the caller observes it
Observed(op, r) ==
    [kind |-> OutcomeKind(r),
     feats |-> IF op = "list_features"
               THEN <<FieldsOf(r.feats[1].pending), FieldsOf(r.feats[1].in_progress),
                      FieldsOf(r.feats[1].done)>>
               ELSE <<FieldsOf(r.feats)>>]

\* C3: the relational and the markdown backend, given the same calls from
\* an empty project, return the same outcome at every step: the same
\* success or error kind and the same id, priority, dependencies, passes
\* and in_progress of every feature returned
C3_BackendsAgree ==
    target = {"sqlite", "markdown"} => Observed(ret.op, ret.sq) = Observed(ret.op, ret.md)

\* [d for d in deps if d is not the id of a feature with passes = true]
Unmet(features, deps) == SelectSeq(deps, LAMBDA d : d \notin PassingIds(features))

\* C4: relational backend: every feature reported by list_features,
\* get_feature, create_feature or update_feature has blocked = true iff
\* one of its dependency ids is not a passing feature, and
\* blocking_dependencies lists exactly those ids
C4_BlockedReported ==
    ("sqlite" \in target /\ ret.sq.st = "ok"
        /\ ret.op \in {"list_features", "get_feature", "create_feature", "update_feature"})
    => \A i \in DOMAIN ResponsesOf(ret.op, ret.sq) :
          LET r == ResponsesOf(ret.op, ret.sq)[i]
          IN  /\ r.blocked = (Unmet(sqlite.db, r.dependencies) # <<>>)
              /\ r.blocking_dependencies = Unmet(sqlite.db, r.dependencies)

\* the checklist items of features.md from top to bottom
RECURSIVE MarkdownItems(_)
MarkdownItems(file) ==
    IF file = <<>> THEN <<>> ELSE Head(file).items \o MarkdownItems(Tail(file))

\* the stored flags of every feature of a backend: id, passes, in_progress
StoredFlags(b) ==
    IF b = "sqlite"
    THEN [i \in DOMAIN sqlite.db |-> [id |-> sqlite.db[i].id, passes |-> sqlite.db[i].passes,
                                      in_progress |-> sqlite.db[i].in_progress]]
    ELSE IF b = "convex"
    THEN [i \in DOMAIN convex.docs |->
            [id |-> convex.docs[i].featureId, passes |-> convex.docs[i].passes,
             in_progress |-> convex.docs[i].in_progress]]
    ELSE LET items == MarkdownItems(features_md)
         IN  [i \in DOMAIN items |-> [id |-> items[i].id, passes |-> items[i].mark = "x",
                                      in_progress |-> items[i].mark = "/"]]

\* the bucket the rule gives: done iff passes, else in_progress, else pending
RuleBucket(f) ==
    IF f.passes THEN "done" ELSE IF f.in_progress THEN "in_progress" ELSE "pending"

ResultOf(b) == IF b = "sqlite" THEN ret.sq ELSE IF b = "convex" THEN ret.cx ELSE ret.md

\* buckets is a strict partition of stored by the rule
IsPartition(buckets, stored) ==
    LET named == [pending |-> buckets.pending, in_progress |-> buckets.in_progress,
                  done |-> buckets.done]
        places(id) == {<<n, i>> \in {"pending", "in_progress", "done"} \X (1..Len(stored)) :
                          i \in DOMAIN named[n] /\ named[n][i].id = id}
    IN  /\ Len(buckets.pending) + Len(buckets.in_progress) + Len(buckets.done) = Len(stored)
        /\ \A k \in DOMAIN stored :
              /\ Cardinality(places(stored[k].id)) = 1
              /\ \A pl \in places(stored[k].id) : pl[1] = RuleBucket(stored[k])
        /\ Len(buckets.done) = Cardinality({k \in DOMAIN stored : stored[k].passes})

\* C5: in every backend list_features puts each feature of the project in
\* exactly one bucket: done iff passes, else in_progress iff in_progress,
\* else pending; done has as many entries as there are passing features
C5_BucketsPartition ==
    ret.op = "list_features"
    => \A b \in target : IsPartition(ResultOf(b).feats[1], StoredFlags(b))

\* C5 witness: the relational backend listed three features, one per
\* bucket, the done one with both flags set
C5_Witness ==
    /\ ret.op = "list_features" /\ target = {"sqlite"}
    /\ Len(ret.sq.feats[1].pending) = 1 /\ Len(ret.sq.feats[1].in_progress) = 1
    /\ Len(ret.sq.feats[1].done) = 1 /\ ret.sq.feats[1].done[1].in_progress

\* the stored features of a backend
FeaturesOf(b) ==
    IF b = "sqlite" THEN SQLiteFeatures
    ELSE IF b = "convex" THEN ConvexFeatures ELSE MarkdownFeatures

\* the feature ids whose dependency list holds x
Dependents(features, x) ==
    {features[i].id : i \in {j \in DOMAIN features : Contains(features[j].dependencies, x)}}

\* what delete_feature(x) owes: r is the result, before / after the features
DeleteContract(before, after, r, x) ==
    IF x \in Ids(before)
    THEN /\ r.st = "ok"
         /\ Ids(after) = Ids(before) \ {x}
         /\ \A i \in DOMAIN after :
               after[i].dependencies = Without(DepsOf(before, after[i].id), x)
         /\ "affected_features" \in r.keys
         /\ Range(r.ids) = Dependents(before, x)
    ELSE /\ r.st = "error" /\ r.err \in NotFoundMessages
         /\ after = before

\* C6: delete_feature(X) on an existing feature removes X, strips X from
\* every dependency list and nothing else, and reports exactly the
\* features whose list held X as affected_features; on a missing id it
\* fails with a not-found error (relational and markdown backend)
C6_DeleteCascades ==
    [][ret'.op = "delete_feature"
       => /\ "sqlite" \in target
                => DeleteContract(SQLiteFeatures, SQLiteFeatures', ret'.sq, ret'.id)
          /\ "markdown" \in target
                => DeleteContract(MarkdownFeatures, MarkdownFeatures', ret'.md, ret'.id)]_vars

\* feature id is stored with passes = true in backend b
Passing(b, id) ==
    \E k \in DOMAIN StoredFlags(b) : StoredFlags(b)[k].id = id /\ StoredFlags(b)[k].passes

\* C7: update_feature on a feature with passes = true fails, whatever
\* the update holds, and the stored features are as before (relational and
\* markdown backend)
C7_CompletedImmutable ==
    [][ret'.op = "update_feature"
       => /\ ("sqlite" \in target /\ Passing("sqlite", ret'.id))
                => ret'.sq.st = "error" /\ sqlite' = sqlite
          /\ ("markdown" \in target /\ Passing("markdown", ret'.id))
                => ret'.md.st = "error" /\ features_md' = features_md]_vars

\* priority of the feature with this id
PriorityOf(features, id) == features[IndexOf(features, id)].priority

\* the ids of the features other than f, in ascending priority
OrderOfOthers(features, f) ==
    LET others == SortByPriority(SelectSeq(features, LAMBDA g : g.id # f))
    IN  [i \in DOMAIN others |-> others[i].id]

\* what skip_feature(f) owes on an existing feature; again = the call
\* before was skip_feature(f) too
SkipContract(before, after, f, again) ==
    f \in Ids(before)
    => /\ \A i \in DOMAIN after :
             after[i].id # f => after[i].priority < PriorityOf(after, f)
       /\ again => OrderOfOthers(after, f) = OrderOfOthers(before, f)

\* C8: after skip_feature(f) the feature f has the strictly greatest
\* priority of the project; a second skip_feature(f) in a row leaves it
\* so and keeps the order of the other features (relational and markdown
\* backend)
C8_SkipMovesLast ==
    [][ret'.op = "skip_feature"
       => /\ "sqlite" \in target
                => SkipContract(SQLiteFeatures, SQLiteFeatures', ret'.id,
                                ret.op = "skip_feature" /\ ret.id = ret'.id)
          /\ "markdown" \in target
                => SkipContract(MarkdownFeatures, MarkdownFeatures', ret'.id,
                                ret.op = "skip_feature" /\ ret.id = ret'.id)]_vars

\* the pending bucket a backend lists
PendingOf(b) ==
    IF b = "sqlite" THEN SQLiteBackend_list_features(sqlite).pending
    ELSE IF b = "convex" THEN ConvexBackend_list_features(convex).pending
    ELSE MarkdownBackend_list_features(features_md).pending

\* the project holds features 1..n, created in this order with default
\* priorities and nothing else: they are listed pending as 1..n with
\* priorities 1..n
InCreationOrder(b) ==
    LET listed == PendingOf(b)
    IN  /\ Len(listed) = Len(FeaturesOf(b))
        /\ issued[b] = Len(listed)
        /\ \A i \in DOMAIN listed : listed[i].id = i /\ listed[i].priority = i

MaxPriorityOf(features) == MaxOf({features[i].priority : i \in DOMAIN features}, 0)

\* what create_feature without a priority owes: r is the result
CreateContract(features, r) ==
    /\ r.st = "ok"
    /\ r.feats[1].priority = MaxPriorityOf(features) + 1
    /\ ~r.feats[1].passes /\ ~r.feats[1].in_progress

\* C9: create_feature without a priority returns priority max + 1 (1 in an
\* empty project), passes = false, in_progress = false; features created
\* one after another this way in a fresh project, whatever their
\* categories, have priorities 1, 2, 3, ... and are listed pending in
\* creation order (relational and markdown backend)
C9_DefaultPriority ==
    [][(ret'.op = "create_feature" /\ ret'.arg.priority = {})
       => \A b \in target \cap {"sqlite", "markdown"} :
             /\ CreateContract(FeaturesOf(b), ResultOf(b)')
             /\ InCreationOrder(b) => InCreationOrder(b)']_vars

\* no two stored features of the backend share an id
UniqueIds(b) ==
    \A i, j \in DOMAIN FeaturesOf(b) :
        FeaturesOf(b)[i].id = FeaturesOf(b)[j].id => i = j

\* C10: feature ids are unique in every state, and every id a
\* create_feature or create_features_bulk call assigns is greater than
\* every id assigned before in the project, also after deletions
C10_IdsNeverReused ==
    /\ [](\A b \in target : UniqueIds(b))
    /\ [][ret'.op \in {"create_feature", "create_features_bulk"}
          => \A b \in target :
                \A i \in DOMAIN ResultOf(b)'.feats : ResultOf(b)'.feats[i].id > issued[b]]_vars

\* set_dependencies(id, dep_ids) must fail on these requests
SetDependenciesMustFail(before, id, dep_ids) ==
    \/ Contains(dep_ids, id)
    \/ HasDuplicates(dep_ids)
    \/ id \notin Ids(before)
    \/ \E d \in Range(dep_ids) : d \notin Ids(before)
    \/ ~Acyclic({e \in Edges(before) : e[1] # id} \cup {<<id, d>> : d \in Range(dep_ids)})

\* what set_dependencies(id, dep_ids) owes: r is the result
SetContract(before, after, r, id, dep_ids) ==
    IF SetDependenciesMustFail(before, id, dep_ids)
    THEN r.st = "error" /\ after = before
    ELSE /\ r.st = "ok"
         /\ Ids(after) = Ids(before)
         /\ \A i \in DOMAIN after :
               Range(after[i].dependencies) =
                   IF after[i].id = id THEN Range(dep_ids)
                   ELSE Range(DepsOf(before, after[i].id))

\* C11: on an acyclic project set_dependencies(id, dep_ids) fails and
\* changes nothing if id is in dep_ids, dep_ids has a duplicate, the
\* feature or one of dep_ids does not exist, or the replaced graph has a
\* cycle; otherwise it succeeds and the feature's dependency set is
\* dep_ids, the other sets as before (every backend)
C11_SetDependenciesAtomic ==
    [][ret'.op = "set_dependencies"
       => \A b \in target :
             Acyclic(Edges(FeaturesOf(b)))
             => SetContract(FeaturesOf(b), FeaturesOf(b)', ResultOf(b)', ret'.id, ret'.arg)]_vars

\* add_dependency(id, dep_id) must fail: an absent feature or an edge
\* that is already there
AddDependencyMustFail(before, id, dep_id) ==
    \/ id \notin Ids(before)
    \/ dep_id \notin Ids(before)
    \/ Contains(DepsOf(before, id), dep_id)

\* C12: add_dependency fails and changes nothing when dep_id is already
\* a dependency of the feature or when id or dep_id is not a feature of
\* the project; remove_dependency fails when dep_id is not a dependency of
\* the feature (every backend)
C12_DependencyEdgeErrors ==
    [][\A b \in target :
          /\ (ret'.op = "add_dependency"
                /\ AddDependencyMustFail(FeaturesOf(b), ret'.id, ret'.dep))
             => ResultOf(b)'.st = "error" /\ FeaturesOf(b)' = FeaturesOf(b)
          /\ (ret'.op = "remove_dependency" /\ ret'.id \in Ids(FeaturesOf(b))
                /\ ~Contains(DepsOf(FeaturesOf(b), ret'.id), ret'.dep))
             => ResultOf(b)'.st = "error"]_vars

\* C13: in every state no feature holds more dependencies than
\* MAX_DEPENDENCIES_PER_FEATURE, whichever operation wrote the list
C13_DependencyCap ==
    \A b \in target :
        \A i \in DOMAIN FeaturesOf(b) :
            Len(FeaturesOf(b)[i].dependencies) <= MAX_DEPENDENCIES_PER_FEATURE

\* C14: in every state every stored dependency id is the id of a feature
\* of the project and no dependency list holds an id twice
C14_DependenciesExist ==
    \A b \in target :
        \A i \in DOMAIN FeaturesOf(b) :
            /\ Range(FeaturesOf(b)[i].dependencies) \subseteq Ids(FeaturesOf(b))
            /\ ~HasDuplicates(FeaturesOf(b)[i].dependencies)

\* C15: in every state the dependency graph is acyclic; in particular no
\* feature depends on itself, whichever operation wrote the list
C15_AlwaysAcyclic ==
    \A b \in target :
        /\ Acyclic(Edges(FeaturesOf(b)))
        /\ \A i \in DOMAIN FeaturesOf(b) :
              ~Contains(FeaturesOf(b)[i].dependencies, FeaturesOf(b)[i].id)

\* what create_features_bulk owes: r is the result, p the first priority
BulkContract(before, after, r, bulk) ==
    LET n == Len(bulk.features)
        p == IF bulk.starting_priority # {} THEN Val(bulk.starting_priority)
             ELSE MaxPriorityOf(before) + 1
    IN  /\ r.st = "ok"
        /\ Len(r.feats) = n
        /\ Len(after) = Len(before) + n
        /\ \A i \in DOMAIN r.feats :
              /\ r.feats[i].priority = p + i - 1
              /\ r.feats[i].category = bulk.features[i].category
              /\ r.feats[i].id \in Ids(after) \ Ids(before)

\* C16: create_features_bulk with n specs creates n features with the
\* priorities p, p+1, ..., p+n-1 in input order, p being starting_priority
\* when given and otherwise the greatest priority of the project + 1 (1 in
\* an empty project); an empty list creates nothing (relational and
\* markdown backend)
C16_BulkPriorities ==
    [][ret'.op = "create_features_bulk"
       => \A b \in target \cap {"sqlite", "markdown"} :
             BulkContract(FeaturesOf(b), FeaturesOf(b)', ResultOf(b)', ret'.arg)]_vars

\* the status the rule gives a node: done > blocked > in_progress > pending
RuleStatus(features, f) ==
    IF f.passes THEN "done"
    ELSE IF Unmet(features, f.dependencies) # <<>> THEN "blocked"
    ELSE IF f.in_progress THEN "in_progress"
    ELSE "pending"

\* nodes holds one node per stored feature, with the status of the rule
NodesByRule(nodes, features) ==
    /\ Len(nodes) = Len(features)
    /\ \A i \in DOMAIN features :
          \E k \in DOMAIN nodes :
              /\ nodes[k].id = features[i].id
              /\ nodes[k].status = RuleStatus(features, features[i])

\* C17: get_dependency_graph returns one node per feature, its status
\* done iff passes, else blocked iff a dependency is not a passing feature
\* (also when in_progress is set), else in_progress iff in_progress, else
\* pending (every backend)
C17_NodeStatus ==
    ret.op = "get_dependency_graph"
    => \A b \in target : NodesByRule(ResultOf(b).feats[1].nodes, FeaturesOf(b))

\* the fields of a feature a document carries
DocumentFields(f) ==
    [id |-> f.id, category |-> f.category, name |-> f.name, steps |-> f.steps,
     passes |-> f.passes, in_progress |-> f.in_progress, priority |-> f.priority]

\* C18: a document whose items all carry an id comment, parsed,
\* serialized and parsed again, yields for every feature the same id,
\* category, name, steps, passes, in_progress and priority, whatever the
\* order of its headings
C18_RoundTripStable ==
    [][ret'.op = "round_trip"
       => {DocumentFields(MarkdownFeatures'[i]) : i \in DOMAIN MarkdownFeatures'}
            = {DocumentFields(MarkdownFeatures[i]) : i \in DOMAIN MarkdownFeatures}]_vars

\* the dependency lists and edges a read of the markdown backend returned
ReadDependencies(op, r) ==
    IF op = "get_dependency_graph"
    THEN {<<e.from, e.to>> : e \in r.feats[1].edges}
    ELSE UNION {Range(ResponsesOf(op, r)[i].dependencies) : i \in DOMAIN ResponsesOf(op, r)}

\* C19: markdown backend: add_dependency, remove_dependency and
\* set_dependencies on an existing feature succeed, and every feature
\* returned by get_feature, list_features or get_dependency_graph has no
\* dependencies, whatever was written before
C19_MarkdownDependenciesInvisible ==
    /\ [][(/\ "markdown" \in target
           /\ ret'.op \in {"add_dependency", "remove_dependency", "set_dependencies"}
           /\ ret'.id \in Ids(MarkdownFeatures))
          => ret'.md.st = "ok"]_vars
    /\ []((/\ "markdown" \in target
           /\ ret.op \in {"get_feature", "list_features", "get_dependency_graph"})
          => ReadDependencies(ret.op, ret.md) = {})

\* C19 witness: add_dependency(1, 2) returned [2] for two existing
\* features, and feature 1 reads back without dependencies
C19_Witness ==
    /\ target = {"markdown"}
    /\ ret.op = "add_dependency" /\ ret.id = 1 /\ ret.dep = 2
    /\ ret.md.st = "ok" /\ ret.md.ids = <<2>>
    /\ {1, 2} \subseteq Ids(MarkdownFeatures)
    /\ MarkdownBackend_get_feature(features_md, 1).feats[1].dependencies = <<>>

\* C20: while an instance is cached get_backend returns that instance,
\* whatever the configuration says by then; only reset drops it; with
\* none cached a get_backend that succeeds returns an instance never
\* handed out before, of the type configured at that moment, and caches it
C20_SingletonUntilReset ==
    [][/\ ret'.op = "get_backend"
          => /\ factory.instance # {}
                => factory'.returned = factory.instance /\ factory'.instance = factory.instance
             /\ (factory.instance = {} /\ ~factory'.raised)
                => /\ factory'.instance = factory'.returned
                   /\ \E i \in factory'.returned :
                         i.type = ConfiguredType(environ) /\ i.serial > factory.built
       /\ ret'.op = "reset" => factory'.instance = {}
       /\ ret'.op \notin {"get_backend", "reset"} => factory'.instance = factory.instance]_vars

\* C20 witness: after a reset the second instance was constructed as
\* sqlite, the configuration then changed to markdown, and get_backend
\* returned the second instance again
C20_Witness ==
    /\ ret.op = "get_backend"
    /\ environ.XAHEEN_BACKEND_TYPE = {"markdown"}
    /\ factory.instance = {[type |-> "sqlite", serial |-> 2]}
    /\ factory.returned = factory.instance

\* C21: with no instance cached, get_backend under a configuration value
\* other than sqlite, convex or markdown (in any letter case) raises,
\* returns no backend and caches nothing, and so does get_backend under
\* convex without CONVEX_URL; under a legal configuration it constructs
\* and caches a backend of that type, also right after a call that raised
C21_UnknownTypeRaises ==
    [][(ret'.op = "get_backend" /\ factory.instance = {})
          => LET configured == IF environ.XAHEEN_BACKEND_TYPE = {} THEN "sqlite"
                               ELSE Val(environ.XAHEEN_BACKEND_TYPE)
                 legal == \/ configured \in {"sqlite", "SQLite", "markdown"}
                          \/ configured = "convex" /\ environ.CONVEX_URL # {}
             IN  IF legal
                 THEN /\ ~factory'.raised
                      /\ factory'.instance = factory'.returned
                      /\ \E i \in factory'.returned :
                            i.type = Lower(configured) /\ i.serial = factory.built + 1
                 ELSE /\ factory'.raised
                      /\ factory'.returned = {}
                      /\ factory'.instance = {}
                      /\ factory'.built = factory.built
                      /\ target' = {}]_vars

\* C21 witness: get_backend has just raised under the value redis with
\* one instance constructed and reset before it, and nothing is cached
C21_Witness ==
    /\ ret.op = "get_backend"
    /\ environ.XAHEEN_BACKEND_TYPE = {"redis"}
    /\ factory.raised /\ factory.instance = {} /\ factory.returned = {}
    /\ factory.built = 1

\* the schedules the configured backend holds
SchedulesOf(b) ==
    IF b = "sqlite" THEN schedule_rows.db
    ELSE MarkdownBackend_read_schedules_list(schedules_json)

\* C22: the configured backend never holds more than 50 schedules of the
\* project, and a create_schedule issued while it holds 50 fails with
\* "Max schedules exceeded" and leaves the schedules as they were
C22_ScheduleCap ==
    /\ [](\A b \in target : Len(SchedulesOf(b)) <= 50)
    /\ [][\A b \in target :
            (ret'.op = "create_schedule" /\ Len(SchedulesOf(b)) >= 50)
                => /\ SchedulesOf(b)' = SchedulesOf(b)
                   /\ ret'.sq.st = "error" \/ ret'.md.st = "error"]_vars

\* ids of the persisted schedules with enabled = true
EnabledIds(schedules) ==
    {schedules[i].id : i \in {j \in DOMAIN schedules : schedules[j].enabled}}

\* C30: after every completed request of the schedules router the job
\* scheduler holds a job for exactly the persisted schedules that are
\* enabled, also when a scheduler call raised during the request
C30_JobsMatchEnabled ==
    \A b \in target : jobs = EnabledIds(SchedulesOf(b))

\* C23: an error of the relational backend reaches the caller of the
\* features router as 404 when it is a not-found error and as 400 when
\* it is an invariant violation (cycle, self-dependency, dependency
\* already present, duplicate ids, cap exceeded, edit of a completed
\* feature)
C23_ErrorsRoutedByKind ==
    ("sqlite" \in target /\ ret.sq.st = "error")
        => /\ ret.sq.err \in NotFoundMessages => handle_backend_error(ret.sq.err) = 404
           /\ ret.sq.err \in InvariantViolations => handle_backend_error(ret.sq.err) = 400

\* the file a read went to
FileOf(op) ==
    IF op = "get_context" THEN context_json
    ELSE IF op = "get_roadmap" THEN roadmap_json ELSE schedules_json

\* C24: get_context and get_roadmap on a file that is not valid JSON, and
\* list_schedules of the markdown backend on a schedules.json that is not,
\* raise nothing and return the empty structure: {} , the roadmap with
\* no phases, no milestones and no current phase, and the empty list
C24_MalformedReadsDefault ==
    \A b \in target :
        LET r == IF b = "sqlite" THEN ret.sq ELSE ret.md
            malformed == FileOf(ret.op).exists /\ ~FileOf(ret.op).valid
        IN  /\ (ret.op = "get_context" /\ malformed)
                => r.st = "ok" /\ r.keys = {}
            /\ (ret.op = "get_roadmap" /\ malformed)
                => r.st = "ok" /\ r.feats = <<DefaultRoadmap>>
            /\ (ret.op = "list_schedules" /\ b = "markdown" /\ malformed)
                => r.st = "ok" /\ r.feats = <<>>

\* two ideas the claim calls duplicates of each other: the same id, or
\* the same title and description up to letter case and outer blanks
SameIdea(x, y) ==
    \/ x.id = y.id
    \/ /\ LowerStrip(GetText(x.title)) = LowerStrip(GetText(y.title))
       /\ LowerStrip(GetText(x.description)) = LowerStrip(GetText(y.description))

RECURSIVE TotalDays(_)
TotalDays(features) ==
    IF Len(features) = 0 THEN 0
    ELSE TotalDays(SubSeq(features, 1, Len(features) - 1))
         + (IF features[Len(features)].estimated_days = {} THEN 0
            ELSE Val(features[Len(features)].estimated_days))

\* C26: right after an add_feature or delete_feature that returned True
\* the stored total_estimated_days is the sum of estimated_days over the
\* features then stored
C26_TotalIsSum ==
    (ret.op \in {"add_feature", "delete_feature"} /\ ret.res = TRUE)
        => roadmap_file.data.total_estimated_days = TotalDays(roadmap_file.data.features)

\* C26 witness: delete_feature("f1") has just returned, one feature of
\* 2 estimated days is left and the stored total is 2
C26_Witness ==
    /\ ret.op = "delete_feature" /\ ret.arg = "f1"
    /\ roadmap_file.data.features = <<[id |-> "f2", estimated_days |-> {2}]>>
    /\ roadmap_file.data.total_estimated_days = 2

\* what get_feature(id) of a backend returns: the feature, or nothing
GetFeature(b, id) ==
    IF b = "sqlite" THEN SQLiteBackend_get_feature(sqlite, id).feats
    ELSE IF b = "convex" THEN ConvexBackend_get_feature(convex, id).feats
    ELSE MarkdownBackend_get_feature(features_md, id).feats

\* a get_feature answer with the priority left out
ButPriority(feats) == [i \in DOMAIN feats |-> [feats[i] EXCEPT !.priority = 0]]

\* C27: across skip_feature(f) get_feature returns every other feature
\* with every field as before, and f with every field but the priority
\* as before
C27_SkipChangesOnlyPriority ==
    [][ret'.op = "skip_feature"
       => \A b \in target, id \in FeatureIds :
             /\ id # ret'.id => GetFeature(b, id)' = GetFeature(b, id)
             /\ id = ret'.id => ButPriority(GetFeature(b, id)') = ButPriority(GetFeature(b, id))]_vars

\* features.md holds a feature with this id and this name
Holds(file, id, name) ==
    \E i \in DOMAIN MarkdownBackend_read_features_list(file) :
        /\ MarkdownBackend_read_features_list(file)[i].id = id
        /\ MarkdownBackend_read_features_list(file)[i].name = name

\* C28: two create_feature calls on the markdown backend that read the
\* same file content return the same new id, and when the later of them
\* writes, the feature the earlier one wrote under that id is gone from
\* the file and the later one's feature stands in its place
C28_LostUpdate ==
    /\ []((\A w \in Workers : writers[w].pc = "done") /\ writers["w1"].file = writers["w2"].file
              => writers["w1"].new_id = writers["w2"].new_id)
    /\ [][\A w, o \in Workers :
            (/\ w # o /\ ret'.op = "create_feature.save" /\ ret'.arg = <<w>>
             /\ writers[o].pc = "done" /\ writers[o].file = writers[w].file
             /\ Holds(features_md, writers[o].new_id, o))
                => /\ ~Holds(features_md', writers[o].new_id, o)
                   /\ Holds(features_md', writers[o].new_id, w)]_vars

\* C28 witness: in an empty project both writers read the file before
\* either wrote; both returned id 1, and the file holds one feature, w2's
C28_Witness ==
    /\ \A w \in Workers : writers[w].pc = "done" /\ writers[w].file = <<>>
                           /\ writers[w].new_id = 1
    /\ Len(MarkdownBackend_read_features_list(features_md)) = 1
    /\ Holds(features_md, 1, "w2") /\ ~Holds(features_md, 1, "w1")

\* C29: with threads entering get_backend side by side from a start with
\* nothing cached and no reset, one backend instance is constructed at
\* most and every caller that was handed an instance was handed that one
C29_OneInstanceForAll ==
    /\ factory.built <= 1
    /\ \A t, u \in Workers :
          (callers[t].got # {} /\ callers[u].got # {}) => callers[t].got = callers[u].got

====
